---------------------------- MODULE Spec2Model ----------------------------
(***************************************************************************)
(* Borders of Aeon: Battle Arena -- the combat engine of battlearena.py.   *)
(*                                                                         *)
(* BattleArenaApp.simulate_battle is modelled as a state machine whose     *)
(* steps are the positions of its loop: building the combatant states,     *)
(* the while test, the regeneration pass, one step per attacker of the     *)
(* attack pass, the log flush with the victory check, and the report.      *)
(*                                                                         *)
(* Numbers.  Python floats are IEEE-754 doubles.  The simulated clock is   *)
(* advanced by repeated `time += 0.1`, which accumulates rounding error,   *)
(* and the code compares it exactly (`time % 1 == 0`, `time < max_time`,   *)
(* `time >= next_attack`).  Clock values are therefore modelled bit-exact  *)
(* (see Flt below).  Health and damage values are modelled in eighths of   *)
(* a point; the rosters use only stats for which every float operation of  *)
(* the code on them is exact, so the integer arithmetic is the float       *)
(* arithmetic of the code on those inputs.                                 *)
(***************************************************************************)
EXTENDS Integers, Sequences, FiniteSets, TLC

\* Largest number of stuns one combatant can receive in the model: the roll
\* of line 656 is taken to fail once a target has been stunned this often.
MaxStuns == 3

RECURSIVE Pow2(_)
Pow2(k) == IF k <= 0 THEN 1 ELSE 2 * Pow2(k - 1)

Min(a, b) == IF a <= b THEN a ELSE b

Max(a, b) == IF a >= b THEN a ELSE b

(***************************************************************************)
(* Clock values: IEEE-754 doubles.                                         *)
(*                                                                         *)
(* A double x is the record [n, e] with                                    *)
(*      5 * x * 2^56  =  n * 2^(55 - MaxStuns) + e                         *)
(* n is the nominal value of x in units of 1/(10 * 2^MaxStuns) second (a   *)
(* tenth of a second is SubTick units) and e is five times the distance    *)
(* of x from that nominal value, in units of 2^-56.  Dyadic values (1.0,   *)
(* 0.5, 300) have e = 0; the double 0.1 = 7205759403792794 * 2^-56 has     *)
(* e = 2.  |e| stays below 2^23 over a whole battle, so values compare by  *)
(* n first and by e second.                                                *)
(***************************************************************************)
SubTick == Pow2(MaxStuns)

Flt(n, e) == [n |-> n, e |-> e]

\* k tenths-of-a-unit that are dyadic: the double of the whole number k
FInt(k) == Flt(k * 10 * SubTick, 0)

FZero == FInt(0)

FOne == FInt(1)

\* the double nearest to 0.1 (the literal of line 694)
FTenth == Flt(SubTick, 2)

FLt(a, b) == a.n < b.n \/ (a.n = b.n /\ a.e < b.e)

FGe(a, b) == ~FLt(a, b)

\* -x, exact
FNeg(x) == Flt(0 - x.n, 0 - x.e)

\* the binade of x >= 0: the largest b in -3..8 with x >= 2^b, -4 if x < 1/8
Binade(x) ==
    LET Reached == {b \in (0 - 3)..8 : FGe(x, Flt(10 * Pow2(MaxStuns + b), 0))}
    IN  IF Reached = {} THEN 0 - 4
        ELSE CHOOSE b \in Reached : \A c \in Reached : c <= b

\* round-to-nearest-even of an exact sum to 53 significant bits.  With u the
\* unit in the last place of the binade (2^(b+4) units of 2^-56), the
\* residue of the exact value modulo 2u is e / 5 modulo 2u (3277 is the
\* inverse of 5 modulo 2^13, and n * 2^(55 - MaxStuns) is a multiple of 2u).
\* Rounding is symmetric: a negative sum (a negative cooldown added to the
\* clock) is rounded through its magnitude.
FRound(x) ==
    LET a == IF FLt(x, Flt(0, 0)) THEN FNeg(x) ELSE x
        b == Binade(a)
        u == Pow2(b + 4)
        m == ((a.e % (2 * u)) * 3277) % (2 * u)
        r == m % u
        odd == m >= u
        d == IF 2 * r < u THEN 0 - r
             ELSE IF 2 * r > u THEN u - r
             ELSE IF odd THEN u - r ELSE 0 - r
        rounded == IF b < 0 - 3 THEN a ELSE Flt(a.n, a.e + 5 * d)
    IN  IF FLt(x, Flt(0, 0)) THEN FNeg(rounded) ELSE rounded

\* a + b in double arithmetic
FAdd(a, b) == FRound(Flt(a.n + b.n, a.e + b.e))

\* x % 1 == 0 (line 613): x is a whole number
FIsWhole(x) == x.n % (10 * SubTick) = 0 /\ x.e = 0

\* f"{x:.1f}" (line 684): x rounded to one decimal, in tenths; the clock is
\* within 2^-30 of its nominal value, which is a whole number of tenths
Fmt1(x) == (2 * x.n + SubTick) \div (2 * SubTick)

\* x *= 0.5 (line 661), exact on the powers of two it is applied to
FHalf(x) == Flt(x.n \div 2, 0)

(***************************************************************************)
(* Warrior and item records (rows of warriors.csv and items.csv).  Stats   *)
(* and bonuses are whole numbers, except attack_time, which is in quarter  *)
(* seconds, and add_hp_regen, which is in eighths of a point.  Derived     *)
(* health and damage values are in eighths of a point.                     *)
(***************************************************************************)
NoItem == [name |-> ""]

Warrior(name, type, tough, dex, smart, min_dmg, max_dmg, attack_time) ==
    [name |-> name, type |-> type, tough |-> tough, dex |-> dex,
     smart |-> smart, min_dmg |-> min_dmg, max_dmg |-> max_dmg,
     attack_time |-> attack_time]

Item(name, add_tough, add_dex, add_smart, add_hp, add_hp_regen, add_dmg, add_defense, add_attack_speed) ==
    [name |-> name, add_tough |-> add_tough, add_dex |-> add_dex,
     add_smart |-> add_smart, add_hp |-> add_hp,
     add_hp_regen |-> add_hp_regen, add_dmg |-> add_dmg,
     add_defense |-> add_defense, add_attack_speed |-> add_attack_speed]

\* `if item:` (lines 532, 545, 555): None when no item is equipped
HasItem(item) == item # NoItem

\* the bonuses of an equipped item, all zero when no item is equipped
Bonuses(item) == IF item = NoItem THEN Item("", 0, 0, 0, 0, 0, 0, 0, 0) ELSE item

\* float(stats['attack_time']) (line 560), attack_time in quarter seconds
FQuarters(q) == Flt((q * 10 * SubTick) \div 4, 0)

\* a cooldown that ignores the attack speed
Cooldown_NoSpeed(attack_time, attack_speed) == FQuarters(attack_time)

\* base_cooldown / (1 + attack_speed/100) (line 561); the rosters keep the
\* quotient dyadic, so the double division is exact
Cooldown(attack_time, attack_speed) == Flt((FQuarters(attack_time).n * 100) \div (100 + attack_speed), 0)

\* BattleArenaApp.init_warrior_state (lines 515-579)
init_warrior_state(warrior_data) ==
    LET warrior == warrior_data.warrior
        item == warrior_data.item
        tough == warrior.tough + (IF HasItem(item) THEN item.add_tough ELSE 0)
        dex == warrior.dex + (IF HasItem(item) THEN item.add_dex ELSE 0)
        smart == warrior.smart + (IF HasItem(item) THEN item.add_smart ELSE 0)
        base_hp == 150
        hp == (base_hp + tough * 20 + (IF HasItem(item) THEN item.add_hp ELSE 0)) * 8
        hp_regen == 2 + (tough * 2) \div 5 + (IF HasItem(item) THEN item.add_hp_regen ELSE 0)
        defense == dex * 2 + (IF HasItem(item) THEN item.add_defense ELSE 0)
        attack_speed == dex + (IF HasItem(item) THEN item.add_attack_speed ELSE 0)
        min_dmg == (warrior.min_dmg + smart * 3 + (IF HasItem(item) THEN item.add_dmg ELSE 0)) * 8
        max_dmg == (warrior.max_dmg + smart * 3 + (IF HasItem(item) THEN item.add_dmg ELSE 0)) * 8
        actual_cooldown == Cooldown(warrior.attack_time, attack_speed)
    IN  [name |-> warrior.name,
         type |-> warrior.type,
         hp |-> hp,
         max_hp |-> hp,
         hp_regen |-> hp_regen,
         defense |-> defense,
         min_dmg |-> min_dmg,
         max_dmg |-> max_dmg,
         cooldown |-> actual_cooldown,
         next_attack |-> actual_cooldown,
         stun_end |-> FZero,
         stun_immune |-> FZero,
         stun_diminish |-> FOne]

\* a damage formula that applies the bonus as a divisor
final_damage_Divided(base_damage, defense, bonus_dmg) == Max(8, (base_damage * 50 * 2) \div ((50 + 3 * defense) * 2 * bonus_dmg))

\* the damage formula without its floor of 1
final_damage_NoFloor(base_damage, defense, bonus_dmg) == (base_damage * 50 * bonus_dmg) \div ((50 + 3 * defense) * 2)

\* max(1, base_damage * (1 - damage_reduction) * bonus_dmg) with
\* damage_reduction = 0.06 d / (1 + 0.06 d) (lines 667-668); base_damage in
\* eighths, bonus_dmg in halves (2 for 1.0, 3 for 1.5).  1 - damage_reduction
\* is 50 / (50 + 3 d).
final_damage(base_damage, defense, bonus_dmg) == Max(8, (base_damage * 50 * bonus_dmg) \div ((50 + 3 * defense) * 2))

(***************************************************************************)
(* State of one run of BattleArenaApp.simulate_battle, and the number of   *)
(* battles started with the same selections.                               *)
(***************************************************************************)
VARIABLES
    battles_run,                 \* clicks on "Start Battle" (line 360)
    team1, team2,                \* the arguments: lists of [warrior, item]
    team1_states, team2_states,  \* lines 585-586
    time,                        \* line 605
    current_events,              \* line 610
    events,                      \* line 607
    team1_alive, team2_alive,    \* lines 688-689
    result_text,                 \* the victory declaration, lines 700-706
    pc,                          \* position in simulate_battle
    idx,                         \* position of the loop of line 621
    warriors,                    \* self.warriors (lines 169, 452)
    battle_type,                 \* the radio buttons' variable (line 352)
    team1_vars, team2_vars,              \* warrior dropdowns' variables (lines 282-283)
    team1_item_vars, team2_item_vars,    \* item dropdowns' variables (lines 286-287)
    team1_values, team2_values,          \* the dropdowns' ['values'] (lines 444-445)
    team1_selections, team2_selections,  \* lines 280-281
    error_shown,                 \* the message box of line 485 is up
    clicks,                      \* operations on the window so far
    lists,                       \* mp01_1.py: the list objects check_guess works on
    guess_copy, code_copy,       \* mp01_1.py lines 42-43: which list each name is bound to
    black_pegs, white_pegs,      \* mp01_1.py lines 39-40
    position,                    \* mp01_1.py: i of the loops of lines 46 and 53
    step,                        \* position in check_guess
    window,                      \* mp01_1.py: the window on screen (lines 108, 133)
    difficulty, code,            \* mp01_1.py line 75: parameters of game_window
    attempts, previous_attempts, \* mp01_1.py lines 76-77
    entry,                       \* mp01_1.py line 114: the text in the entry
    feedback, attempts_label, previous_guesses,  \* mp01_1.py lines 119-125
    box                          \* mp01_1.py lines 84, 100, 104: the message box that is up

\* The state of the simulation tab.
app == <<warriors, battle_type, team1_vars, team2_vars, team1_item_vars, team2_item_vars, team1_values, team2_values, team1_selections, team2_selections, error_shown, clicks>>

\* The state of one call of check_guess (mp01_1.py).
game == <<lists, guess_copy, code_copy, black_pegs, white_pegs, position, step>>

\* The state of the Mastermind windows (mp01_1.py).
mind == <<window, difficulty, code, attempts, previous_attempts, entry, feedback, attempts_label, previous_guesses, box>>

vars == <<battles_run, team1, team2, team1_states, team2_states, time, current_events, events, team1_alive, team2_alive, result_text, pc, idx, app, game, mind>>

\* Largest number of battles started on one selection of fighters.
MaxBattles == 2

\* max_time (line 606)
max_time == 300

\* an entry of current_events / events
Event(kind, who, target, amount, base) == [kind |-> kind, who |-> who, target |-> target, amount |-> amount, base |-> base]

\* team1_states + team2_states (lines 614, 621)
Combatants == team1_states \o team2_states

\* the loop iteration being processed, counted from 1
Tick == time.n \div SubTick + 1

\* `attacker in team1_states` (line 632): list membership compares the
\* dictionaries by value
InTeam1(attacker) == \E j \in 1..Len(team1_states) : team1_states[j] = attacker

\* any(w['hp'] > 0 for w in team) (lines 688-689)
AnyAlive(team) == \E j \in 1..Len(team) : team[j].hp > 0

\* the clock at the start of loop iteration k + 1: 0 with 0.1 added k times
\* (lines 605 and 694)
TickTime[k \in 0..(10 * max_time + 1)] == IF k = 0 THEN FZero ELSE FAdd(TickTime[k - 1], FTenth)

\* the number of stuns a combatant has received: stun_diminish is 2^-k
RECURSIVE Halvings(_)
Halvings(x) == IF x.n >= FOne.n THEN 0 ELSE 1 + Halvings(Flt(2 * x.n, 0))

\* regeneration that forgets the cap of line 616
RegenOf_Uncapped(warrior) == IF warrior.hp > 0 /\ warrior.hp < warrior.max_hp THEN warrior.hp_regen ELSE 0

\* lines 614-618 for one combatant
RegenOf(warrior) ==
    IF warrior.hp > 0 /\ warrior.hp < warrior.max_hp
    THEN Min(warrior.hp_regen, warrior.max_hp - warrior.hp)
    ELSE 0

Regenerated(warrior) == [warrior EXCEPT !.hp = warrior.hp + RegenOf(warrior)]

RegenEvents(team) ==
    LET Hurt == SelectSeq(team, LAMBDA w : w.hp > 0 /\ w.hp < w.max_hp)
    IN  [j \in 1..Len(Hurt) |-> Event("regen", Hurt[j].name, "", RegenOf(Hurt[j]), 0)]

(***************************************************************************)
(* The battles explored: the arguments run_simulation can pass (lines      *)
(* 489-510).  A team is shorter than the battle mode asks, or empty, when  *)
(* a selected name is not found in the warrior list (line 496).            *)
(***************************************************************************)
Types == {"Tough", "Dexterous", "Smart"}

Entry(warrior, item) == [warrior |-> warrior, item |-> item]

\* one hit of a Champion fells any Squire; a Squire needs eight hits
Champion(type) == Warrior("Champion", type, 0, 0, 0, 200, 210, 4)

Squire(type) == Warrior("Squire", type, 0, 0, 0, 20, 20, 2)

Duels ==
    {[team1 |-> <<Entry(Champion(a), NoItem)>>, team2 |-> <<Entry(Squire(b), NoItem)>>] : a \in Types, b \in Types}
    \cup {[team1 |-> <<Entry(Squire(a), NoItem)>>, team2 |-> <<Entry(Champion(b), NoItem)>>] : a \in Types, b \in Types}

\* two walls that cannot wear each other down within the time limit
Wall == Warrior("Wall", "Tough", 0, 0, 0, 1, 1, 600)

Rock == Warrior("Rock", "Tough", 0, 0, 0, 1, 1, 600)

Sieges == {[team1 |-> <<Entry(Wall, NoItem)>>, team2 |-> <<Entry(Rock, NoItem)>>]}

\* a slow exchange of light blows that lasts past the nineteenth second
Medic == Warrior("Medic", "Tough", 0, 0, 0, 1, 1, 40)

Lancer == Warrior("Lancer", "Tough", 0, 0, 0, 1, 1, 40)

Salve == Item("Salve", 0, 0, 0, 0, 40, 0, 0, 0)

Wound == Item("Wound", 0, 0, 0, 0 - 148, 0, 0, 0, 0)

Attrition == {[team1 |-> <<Entry(Medic, Salve)>>, team2 |-> <<Entry(Lancer, Wound)>>]}

\* a Tough attacker against a Dexterous target that survives several stuns
Brute == Warrior("Brute", "Tough", 5, 0, 0, 20, 20, 4)

Rogue == Warrior("Rogue", "Dexterous", 0, 0, 0, 60, 60, 6)

Brawls == {[team1 |-> <<Entry(Brute, NoItem)>>, team2 |-> <<Entry(Rogue, NoItem)>>], [team1 |-> <<Entry(Rogue, NoItem)>>, team2 |-> <<Entry(Brute, NoItem)>>]}

\* skirmishes of zero to two fighters a side, equal sizes or not
Knight == Warrior("Knight", "Tough", 0, 25, 0, 100, 100, 5)

Archer == Warrior("Archer", "Dexterous", 0, 0, 0, 150, 150, 4)

Mage == Warrior("Mage", "Smart", 0, 0, 10, 50, 50, 6)

Monk == Warrior("Monk", "Smart", 0, 0, 0, 100, 100, 4)

Lineups1 == {<<>>, <<Entry(Knight, NoItem)>>, <<Entry(Knight, NoItem), Entry(Mage, NoItem)>>}

Lineups2 == {<<>>, <<Entry(Archer, NoItem)>>, <<Entry(Archer, NoItem), Entry(Monk, NoItem)>>}

Skirmishes == {[team1 |-> a, team2 |-> b] : a \in Lineups1, b \in Lineups2}

\* fighters that enter the arena with no health left, or with hardly any
Curse == Item("Curse", 0, 0, 0, 0 - 150, 0, 0, 0, 0)

Shell == Item("Shell", 0, 0, 0, 0 - 146, 0, 0, 50, 0)

Gnat == Warrior("Gnat", "Smart", 0, 0, 0, 2, 2, 2)

Turtle == Warrior("Turtle", "Tough", 0, 0, 0, 1, 3, 4)

Frail ==
    {[team1 |-> <<Entry(Knight, a)>>, team2 |-> <<Entry(Archer, b)>>] : a \in {NoItem, Curse}, b \in {Curse}}
    \cup {[team1 |-> <<Entry(Knight, Curse)>>, team2 |-> <<Entry(Archer, NoItem)>>]}
    \cup {[team1 |-> <<Entry(Gnat, NoItem)>>, team2 |-> <<Entry(Turtle, Shell)>>], [team1 |-> <<Entry(Turtle, Shell)>>, team2 |-> <<Entry(Gnat, Shell)>>]}

\* a warrior whose attack_time is 0: the report of its attack speed divides
\* by its cooldown (line 599)
Ghost == Warrior("Ghost", "Smart", 0, 0, 0, 10, 10, 0)

Faulty == {[team1 |-> <<Entry(Ghost, NoItem)>>, team2 |-> <<Entry(Archer, NoItem)>>]}

\* a fighter whose item changes every derived stat, against a bare one
Relic == Item("Relic", 5, 25, 1, 10, 2, 2, 0 - 40, 75)

Equipped == {[team1 |-> <<Entry(Monk, Relic)>>, team2 |-> <<Entry(Turtle, NoItem)>>]}

\* a 3v3 with one warrior record on both teams: the dropdowns tell
\* warriors apart by name and type (line 427) but run_simulation looks them
\* up by name alone (lines 494-495), so two selections whose names agree
\* resolve to the same record.  Its attack_time is negative (the editor
\* accepts any number, lines 778-806), so it attacks from the first tick.
Twin == Warrior("Twin", "Smart", 0, 0, 0, 200, 200, 0 - 4)

Page == Warrior("Page", "Smart", 0, 0, 0, 20, 20, 4)

Usher == Warrior("Usher", "Smart", 0, 0, 0, 20, 20, 4)

Clerk == Warrior("Clerk", "Smart", 0, 0, 0, 20, 20, 4)

Scribe == Warrior("Scribe", "Smart", 0, 0, 0, 20, 20, 4)

Twins == {[team1 |-> <<Entry(Twin, NoItem), Entry(Page, NoItem), Entry(Usher, NoItem)>>, team2 |-> <<Entry(Twin, NoItem), Entry(Clerk, NoItem), Entry(Scribe, NoItem)>>]}

Battles == Duels \cup Sieges \cup Attrition \cup Brawls \cup Skirmishes \cup Frail \cup Faulty \cup Equipped \cup Twins

(***************************************************************************)
(* The state machine.                                                      *)
(***************************************************************************)
\* The simulation tab while simulate_battle runs: the battle reads none of
\* it (its only inputs are team1 and team2), so it is left empty.
TabAtRest ==
    /\ warriors = <<>>
    /\ battle_type = "1v1"
    /\ team1_vars = <<<<>>, <<>>, <<>>>>
    /\ team2_vars = <<<<>>, <<>>, <<>>>>
    /\ team1_item_vars = <<"", "", "">>
    /\ team2_item_vars = <<"", "", "">>
    /\ team1_values = <<<< <<>> >>, << <<>> >>, << <<>> >>>>
    /\ team2_values = <<<< <<>> >>, << <<>> >>, << <<>> >>>>
    /\ team1_selections = <<>>
    /\ team2_selections = <<>>
    /\ error_shown = FALSE
    /\ clicks = 0

\* No call of check_guess is under way: the guessing game is another
\* program (mp01_1.py).
NoGame ==
    /\ lists = [player_guess |-> <<>>, secret_code |-> <<>>, guess_copy |-> <<>>, code_copy |-> <<>>]
    /\ guess_copy = ""
    /\ code_copy = ""
    /\ black_pegs = 0
    /\ white_pegs = 0
    /\ position = 0
    /\ step = "none"

\* The guessing game has not been started.
NoWindow ==
    /\ window = "none"
    /\ difficulty = ""
    /\ code = <<>>
    /\ attempts = 0
    /\ previous_attempts = <<>>
    /\ entry = <<>>
    /\ feedback = <<>>
    /\ attempts_label = <<0, 0>>
    /\ previous_guesses = <<>>
    /\ box = "none"

Init ==
    /\ battles_run = 1
    /\ \E b \in Battles : team1 = b.team1 /\ team2 = b.team2
    /\ team1_states = <<>>
    /\ team2_states = <<>>
    /\ time = FZero
    /\ current_events = <<>>
    /\ events = <<>>
    /\ team1_alive = FALSE
    /\ team2_alive = FALSE
    /\ result_text = ""
    /\ pc = "call"
    /\ idx = 0
    /\ TabAtRest
    /\ NoGame
    /\ NoWindow

\* init_warrior_state working on the warrior record itself instead of a
\* copy of it: the item's stat bonuses end up in the warrior list
Setup_Aliased ==
    /\ pc = "call"
    /\ LET states1 == [j \in 1..Len(team1) |-> init_warrior_state(team1[j])]
           states2 == [j \in 1..Len(team2) |-> init_warrior_state(team2[j])]
           all == states1 \o states2
           Written(d) == [d EXCEPT !.warrior.tough = @ + Bonuses(d.item).add_tough,
                                   !.warrior.dex = @ + Bonuses(d.item).add_dex,
                                   !.warrior.smart = @ + Bonuses(d.item).add_smart]
       IN  /\ team1_states' = states1
           /\ team2_states' = states2
           /\ team1' = [j \in 1..Len(team1) |-> Written(team1[j])]
           /\ team2' = [j \in 1..Len(team2) |-> Written(team2[j])]
           /\ pc' = IF \E j \in 1..Len(all) : all[j].cooldown = FZero THEN "raised" ELSE "while"
    /\ time' = FZero
    /\ events' = <<>>
    /\ UNCHANGED <<mind, game, app, battles_run, current_events, team1_alive, team2_alive, result_text, idx>>

\* lines 582-607: build the states, print the initial stats (the attack
\* speed printed on line 599 is 1 / cooldown), start the clock
Setup ==
    /\ pc = "call"
    /\ LET states1 == [j \in 1..Len(team1) |-> init_warrior_state(team1[j])]
           states2 == [j \in 1..Len(team2) |-> init_warrior_state(team2[j])]
           all == states1 \o states2
       IN  /\ team1_states' = states1
           /\ team2_states' = states2
           /\ pc' = IF \E j \in 1..Len(all) : all[j].cooldown = FZero THEN "raised" ELSE "while"
    /\ time' = FZero
    /\ events' = <<>>
    /\ UNCHANGED <<mind, game, app, battles_run, team1, team2, current_events, team1_alive, team2_alive, result_text, idx>>

\* line 609-610: the loop test
LoopTest ==
    /\ pc = "while"
    /\ IF FLt(time, FInt(max_time))
       THEN pc' = "regen" /\ current_events' = <<>>
       ELSE pc' = "report" /\ UNCHANGED current_events
    /\ UNCHANGED <<mind, game, app, battles_run, team1, team2, team1_states, team2_states, time, events, team1_alive, team2_alive, result_text, idx>>

\* lines 612-618: regeneration on whole seconds
Regen ==
    /\ pc = "regen"
    /\ IF FIsWhole(time)
       THEN /\ team1_states' = [j \in 1..Len(team1_states) |-> Regenerated(team1_states[j])]
            /\ team2_states' = [j \in 1..Len(team2_states) |-> Regenerated(team2_states[j])]
            /\ current_events' = current_events \o RegenEvents(Combatants)
       ELSE UNCHANGED <<team1_states, team2_states, current_events>>
    /\ pc' = "attack"
    /\ idx' = 1
    /\ UNCHANGED <<mind, game, app, battles_run, team1, team2, time, events, team1_alive, team2_alive, result_text>>

\* the attacker the loop of line 621 is at
Attacker == Combatants[idx]

\* an attacker that does not wait for its next_attack time
Acts_Eager(a) ==
    /\ a.hp > 0
    /\ ~FLt(time, a.stun_end)

\* an attacker that shrugs off stuns
Acts_Unstunnable(a) ==
    /\ a.hp > 0
    /\ FGe(time, a.next_attack)

\* an attacker that fights on after its defeat
Acts_Undead(a) ==
    /\ ~FLt(time, a.stun_end)
    /\ FGe(time, a.next_attack)

\* lines 622-630 and 632-636: the attacker acts in this tick
Acts(a) ==
    /\ a.hp > 0
    /\ ~FLt(time, a.stun_end)
    /\ FGe(time, a.next_attack)

\* line 632: the side the attacker aims at
TargetSide(a) == IF InTeam1(a) THEN 2 ELSE 1

TeamOf(side) == IF side = 1 THEN team1_states ELSE team2_states

\* target selection that does not look at the targets' hp
AliveTargets_All(a) == 1..Len(TeamOf(TargetSide(a)))

\* line 633
AliveTargets(a) == {j \in 1..Len(TeamOf(TargetSide(a))) : TeamOf(TargetSide(a))[j].hp > 0}

\* where the attacker itself is stored
AttackerSide == IF idx <= Len(team1_states) THEN 1 ELSE 2

AttackerPos == IF idx <= Len(team1_states) THEN idx ELSE idx - Len(team1_states)

\* a next attack scheduled from the previous schedule instead of the clock
Rearmed_FromSchedule(teams) == [teams EXCEPT ![AttackerSide][AttackerPos].next_attack = FAdd(teams[AttackerSide][AttackerPos].next_attack, teams[AttackerSide][AttackerPos].cooldown)]

\* line 680 applied to the states left by the attack
Rearmed(teams) == [teams EXCEPT ![AttackerSide][AttackerPos].next_attack = FAdd(time, teams[AttackerSide][AttackerPos].cooldown)]

\* a stun whose immunity ends with the stun itself
Stunned_NoGrace(target) ==
    [target EXCEPT !.stun_end = FAdd(time, target.stun_diminish),
                   !.stun_immune = FAdd(time, target.stun_diminish),
                   !.stun_diminish = FHalf(target.stun_diminish)]

\* a stun that does not shorten the next one
Stunned_NoDecay(target) ==
    [target EXCEPT !.stun_end = FAdd(time, target.stun_diminish),
                   !.stun_immune = FAdd(FAdd(time, target.stun_diminish), FOne)]

\* lines 658-661
Stunned(target) ==
    [target EXCEPT !.stun_end = FAdd(time, target.stun_diminish),
                   !.stun_immune = FAdd(FAdd(time, target.stun_diminish), FOne),
                   !.stun_diminish = FHalf(target.stun_diminish)]

\* a turn without a living target that still starts a new cooldown
AttackIdle_Rearms ==
    /\ pc = "attack"
    /\ idx <= Len(Combatants)
    /\ ~Acts(Attacker) \/ AliveTargets(Attacker) = {}
    /\ team1_states' = (IF Acts(Attacker) THEN Rearmed(<<team1_states, team2_states>>) ELSE <<team1_states, team2_states>>)[1]
    /\ team2_states' = (IF Acts(Attacker) THEN Rearmed(<<team1_states, team2_states>>) ELSE <<team1_states, team2_states>>)[2]
    /\ idx' = idx + 1
    /\ UNCHANGED <<mind, game, app, battles_run, team1, team2, time, current_events, events, team1_alive, team2_alive, result_text, pc>>

\* lines 622-636 and the untaken branch of line 630: no attack this tick
AttackIdle ==
    /\ pc = "attack"
    /\ idx <= Len(Combatants)
    /\ ~Acts(Attacker) \/ AliveTargets(Attacker) = {}
    /\ idx' = idx + 1
    /\ UNCHANGED <<mind, game, app, battles_run, team1, team2, team1_states, team2_states, time, current_events, events, team1_alive, team2_alive, result_text, pc>>

\* a miss that still grazes its target for the minimum damage
AttackMiss_Grazes ==
    /\ pc = "attack"
    /\ idx <= Len(Combatants)
    /\ Acts(Attacker)
    /\ \E j \in AliveTargets(Attacker) :
         LET attacker == Attacker
             side == TargetSide(attacker)
             target == TeamOf(side)[j]
             teams == Rearmed([<<team1_states, team2_states>> EXCEPT ![side][j].hp = @ - 8])
         IN  /\ attacker.type = "Smart" /\ target.type = "Dexterous"
             /\ current_events' = Append(current_events, Event("miss", attacker.name, target.name, 0, 0))
             /\ team1_states' = teams[1]
             /\ team2_states' = teams[2]
    /\ idx' = idx + 1
    /\ UNCHANGED <<mind, game, app, battles_run, team1, team2, time, events, team1_alive, team2_alive, result_text, pc>>

\* lines 645-648 and 680: a Smart attacker misses a Dexterous target
AttackMiss ==
    /\ pc = "attack"
    /\ idx <= Len(Combatants)
    /\ Acts(Attacker)
    /\ \E j \in AliveTargets(Attacker) :
         LET attacker == Attacker
             target == TeamOf(TargetSide(attacker))[j]
             teams == Rearmed(<<team1_states, team2_states>>)
         IN  /\ attacker.type = "Smart" /\ target.type = "Dexterous"
             /\ current_events' = Append(current_events, Event("miss", attacker.name, target.name, 0, 0))
             /\ team1_states' = teams[1]
             /\ team2_states' = teams[2]
    /\ idx' = idx + 1
    /\ UNCHANGED <<mind, game, app, battles_run, team1, team2, time, events, team1_alive, team2_alive, result_text, pc>>

\* a Tough attacker that stuns targets of every type
AttackHit_StunsAnyType ==
    /\ pc = "attack"
    /\ idx <= Len(Combatants)
    /\ Acts(Attacker)
    /\ \E j \in AliveTargets(Attacker), roll \in BOOLEAN :
         LET attacker == Attacker
             side == TargetSide(attacker)
             target == TeamOf(side)[j]
             weak == attacker.type = "Smart" /\ target.type = "Tough" /\ roll
             stun == /\ attacker.type = "Tough"
                     /\ roll
                     /\ FGe(time, target.stun_immune)
                     /\ Halvings(target.stun_diminish) < MaxStuns
             bonus_dmg == IF weak THEN 3 ELSE 2
             effect == IF weak THEN <<Event("weak", attacker.name, target.name, 0, 0)>>
                       ELSE IF stun THEN <<Event("stun", attacker.name, target.name, target.stun_diminish, 0)>>
                       ELSE <<>>
             struck == IF stun THEN Stunned(target) ELSE target
         IN  /\ ~(attacker.type = "Smart" /\ target.type = "Dexterous" /\ roll)
             /\ \E base_damage \in {attacker.min_dmg, attacker.max_dmg} :
                  LET dealt == final_damage(base_damage, target.defense, bonus_dmg)
                      hurt == [struck EXCEPT !.hp = struck.hp - dealt]
                      teams == Rearmed([<<team1_states, team2_states>> EXCEPT ![side][j] = hurt])
                      defeat == IF hurt.hp <= 0 THEN <<Event("defeat", target.name, "", 0, 0)>> ELSE <<>>
                  IN  /\ team1_states' = teams[1]
                      /\ team2_states' = teams[2]
                      /\ current_events' = current_events \o effect \o <<Event("damage", attacker.name, target.name, dealt, base_damage)>> \o defeat
    /\ idx' = idx + 1
    /\ UNCHANGED <<mind, game, app, battles_run, team1, team2, time, events, team1_alive, team2_alive, result_text, pc>>

\* a hit that announces a defeat only below zero
AttackHit_SilentAtZero ==
    /\ pc = "attack"
    /\ idx <= Len(Combatants)
    /\ Acts(Attacker)
    /\ \E j \in AliveTargets(Attacker), roll \in BOOLEAN :
         LET attacker == Attacker
             side == TargetSide(attacker)
             target == TeamOf(side)[j]
             weak == attacker.type = "Smart" /\ target.type = "Tough" /\ roll
             stun == /\ attacker.type = "Tough" /\ target.type = "Dexterous"
                     /\ roll
                     /\ FGe(time, target.stun_immune)
                     /\ Halvings(target.stun_diminish) < MaxStuns
             bonus_dmg == IF weak THEN 3 ELSE 2
             effect == IF weak THEN <<Event("weak", attacker.name, target.name, 0, 0)>>
                       ELSE IF stun THEN <<Event("stun", attacker.name, target.name, target.stun_diminish, 0)>>
                       ELSE <<>>
             struck == IF stun THEN Stunned(target) ELSE target
         IN  /\ ~(attacker.type = "Smart" /\ target.type = "Dexterous" /\ roll)
             /\ \E base_damage \in {attacker.min_dmg, attacker.max_dmg} :
                  LET dealt == final_damage(base_damage, target.defense, bonus_dmg)
                      hurt == [struck EXCEPT !.hp = struck.hp - dealt]
                      teams == Rearmed([<<team1_states, team2_states>> EXCEPT ![side][j] = hurt])
                      defeat == IF hurt.hp < 0 THEN <<Event("defeat", target.name, "", 0, 0)>> ELSE <<>>
                  IN  /\ team1_states' = teams[1]
                      /\ team2_states' = teams[2]
                      /\ current_events' = current_events \o effect \o <<Event("damage", attacker.name, target.name, dealt, base_damage)>> \o defeat
    /\ idx' = idx + 1
    /\ UNCHANGED <<mind, game, app, battles_run, team1, team2, time, events, team1_alive, team2_alive, result_text, pc>>

\* lines 638-680 with miss = False: the attack connects.  roll is the
\* outcome of random.random() < 0.2 for the pairs that have a special
\* effect, base_damage the outcome of random.uniform (line 666).
AttackHit ==
    /\ pc = "attack"
    /\ idx <= Len(Combatants)
    /\ Acts(Attacker)
    /\ \E j \in AliveTargets(Attacker), roll \in BOOLEAN :
         LET attacker == Attacker
             side == TargetSide(attacker)
             target == TeamOf(side)[j]
             weak == attacker.type = "Smart" /\ target.type = "Tough" /\ roll
             stun == /\ attacker.type = "Tough" /\ target.type = "Dexterous"
                     /\ roll
                     /\ FGe(time, target.stun_immune)
                     /\ Halvings(target.stun_diminish) < MaxStuns
             bonus_dmg == IF weak THEN 3 ELSE 2
             effect == IF weak THEN <<Event("weak", attacker.name, target.name, 0, 0)>>
                       ELSE IF stun THEN <<Event("stun", attacker.name, target.name, target.stun_diminish, 0)>>
                       ELSE <<>>
             struck == IF stun THEN Stunned(target) ELSE target
         IN  /\ ~(attacker.type = "Smart" /\ target.type = "Dexterous" /\ roll)
             /\ \E base_damage \in {attacker.min_dmg, attacker.max_dmg} :
                  LET dealt == final_damage(base_damage, target.defense, bonus_dmg)
                      hurt == [struck EXCEPT !.hp = struck.hp - dealt]
                      teams == Rearmed([<<team1_states, team2_states>> EXCEPT ![side][j] = hurt])
                      defeat == IF hurt.hp <= 0 THEN <<Event("defeat", target.name, "", 0, 0)>> ELSE <<>>
                  IN  /\ team1_states' = teams[1]
                      /\ team2_states' = teams[2]
                      /\ current_events' = current_events \o effect \o <<Event("damage", attacker.name, target.name, dealt, base_damage)>> \o defeat
    /\ idx' = idx + 1
    /\ UNCHANGED <<mind, game, app, battles_run, team1, team2, time, events, team1_alive, team2_alive, result_text, pc>>

\* a flush that stamps every tick, eventful or not
Check_StampsEveryTick ==
    /\ pc = "attack"
    /\ idx > Len(Combatants)
    /\ events' = events \o <<Event("time", "", "", Fmt1(time), 0)>> \o current_events
    /\ team1_alive' = AnyAlive(team1_states)
    /\ team2_alive' = AnyAlive(team2_states)
    /\ IF ~AnyAlive(team1_states) \/ ~AnyAlive(team2_states)
       THEN pc' = "report" /\ UNCHANGED time
       ELSE pc' = "while" /\ time' = FAdd(time, FTenth)
    /\ UNCHANGED <<mind, game, app, battles_run, team1, team2, team1_states, team2_states, current_events, result_text, idx>>

\* a victory check that lets the clock run on after the last blow
Check_ClockRunsOn ==
    /\ pc = "attack"
    /\ idx > Len(Combatants)
    /\ events' = IF current_events # <<>>
                 THEN events \o <<Event("time", "", "", Fmt1(time), 0)>> \o current_events
                 ELSE events
    /\ team1_alive' = AnyAlive(team1_states)
    /\ team2_alive' = AnyAlive(team2_states)
    /\ pc' = IF ~AnyAlive(team1_states) \/ ~AnyAlive(team2_states) THEN "report" ELSE "while"
    /\ time' = FAdd(time, FTenth)
    /\ UNCHANGED <<mind, game, app, battles_run, team1, team2, team1_states, team2_states, current_events, result_text, idx>>

\* lines 682-694: flush the tick's events, check for victory, advance time
Check ==
    /\ pc = "attack"
    /\ idx > Len(Combatants)
    /\ events' = IF current_events # <<>>
                 THEN events \o <<Event("time", "", "", Fmt1(time), 0)>> \o current_events
                 ELSE events
    /\ team1_alive' = AnyAlive(team1_states)
    /\ team2_alive' = AnyAlive(team2_states)
    /\ IF ~AnyAlive(team1_states) \/ ~AnyAlive(team2_states)
       THEN pc' = "report" /\ UNCHANGED time
       ELSE pc' = "while" /\ time' = FAdd(time, FTenth)
    /\ UNCHANGED <<mind, game, app, battles_run, team1, team2, team1_states, team2_states, current_events, result_text, idx>>

\* a victory declaration that looks at Team 1 first
Report_Team1First ==
    /\ pc = "report"
    /\ result_text' = IF ~team1_alive THEN "Team 2 is victorious!"
                      ELSE IF ~team2_alive THEN "Team 1 is victorious!"
                      ELSE "Battle ended in a draw (time limit reached)"
    /\ pc' = "done"
    /\ UNCHANGED <<mind, game, app, battles_run, team1, team2, team1_states, team2_states, time, current_events, events, team1_alive, team2_alive, idx>>

\* lines 696-708: the victory declaration
Report ==
    /\ pc = "report"
    /\ result_text' = IF ~team2_alive THEN "Team 1 is victorious!"
                      ELSE IF ~team1_alive THEN "Team 2 is victorious!"
                      ELSE "Battle ended in a draw (time limit reached)"
    /\ pc' = "done"
    /\ UNCHANGED <<mind, game, app, battles_run, team1, team2, team1_states, team2_states, time, current_events, events, team1_alive, team2_alive, idx>>

\* lines 473-510: "Start Battle" is clicked again with the same selections;
\* run_simulation looks the same warrior and item records up and calls
\* simulate_battle, whose local variables start afresh
Restart ==
    /\ pc \in {"done", "raised"}
    /\ battles_run < MaxBattles
    /\ battles_run' = battles_run + 1
    /\ team1_states' = <<>>
    /\ team2_states' = <<>>
    /\ time' = FZero
    /\ current_events' = <<>>
    /\ events' = <<>>
    /\ team1_alive' = FALSE
    /\ team2_alive' = FALSE
    /\ result_text' = ""
    /\ pc' = "call"
    /\ idx' = 0
    /\ UNCHANGED <<mind, game, app, team1, team2>>

Next == Setup \/ LoopTest \/ Regen \/ AttackIdle \/ AttackMiss \/ AttackHit \/ Check \/ Report \/ Restart

Spec == Init /\ [][Next]_vars

(***************************************************************************)
(* The simulation tab (lines 265-513) and the warrior list it reads.       *)
(*                                                                         *)
(* A piece of text is the sequence of its parts, cut wherever " (" occurs: *)
(* "Knight (Tough)" is <<"Knight", " (", "Tough)">> and the empty text is  *)
(* <<>>.  A dropdown's variable holds such a text.                         *)
(***************************************************************************)
\* The text of a warrior name: only one name of the pool holds a " (".
Text(name) == IF name = "Knight (II" THEN <<"Knight", " (", "II">> ELSE <<name>>

\* line 427: f"{w['name']} ({w['type']})"
Display(w) == Text(w.name) \o <<" (", w.type, ")">>

\* lines 490, 498: selection.split(" (")[0], the text before the first " ("
NameOf(selection) ==
    LET cuts == {k \in 1..Len(selection) : selection[k] = " ("}
        first == CHOOSE k \in cuts : \A m \in cuts : k <= m
    IN  IF cuts = {} THEN selection ELSE SubSeq(selection, 1, first - 1)

\* The warriors that "Add Warrior" and "Edit Warrior" can save: the name is
\* free text, the type one of three (lines 746-747).
Heir == Warrior("Knight (II", "Smart", 0, 0, 0, 100, 100, 4)

Pool == {Knight, Archer, Heir}

\* The content of warriors.csv when the program starts (line 169).
Stored == <<Knight, Archer>>

\* The content of items.csv (lines 219, 453), left as it is stored.
items == <<Salve>>

\* Largest number of warriors in the list.
MaxWarriors == 3

\* Largest number of operations on the window in one run.
MaxClicks == 5

Slots == 1..3

\* lines 383, 478: required_warriors
Required(mode) == IF mode = "3v3" THEN 3 ELSE 1

\* x in l, for a list l
InList(x, l) == \E k \in 1..Len(l) : l[k] = x

\* lines 430-431: the non-empty values of a team's three variables
Selected(tvars) == SelectSeq(tvars, LAMBDA v : v # <<>>)

\* lines 427-441: the values update_available_warriors gives the dropdown
\* whose variable holds current, for list ws and variables v1, v2
Available(ws, v1, v2, current) ==
    LET all_warriors == [j \in 1..Len(ws) |-> Display(ws[j])]
        taken == Selected(v1) \o Selected(v2)
    IN  << <<>> >> \o SelectSeq(all_warriors, LAMBDA w : ~InList(w, taken) \/ w = current)

\* lines 425-445: update_available_warriors, for one team's dropdowns
Offered(ws, v1, v2, own) == [i \in Slots |-> Available(ws, v1, v2, own[i])]

\* lines 416-420 of on_warrior_select (index i counts from 1 here)
Noted(selections, i, selection) ==
    IF Len(selections) > i - 1
    THEN [selections EXCEPT ![i] = selection]
    ELSE Append(selections, selection)

\* lines 491, 499: next((w for w in self.warriors if w['name'] == name), None);
\* 0 stands for None
Found(name) ==
    LET hits == {j \in 1..Len(warriors) : Text(warriors[j].name) = name}
    IN  IF hits = {} THEN 0 ELSE CHOOSE j \in hits : \A m \in hits : j <= m

\* lines 494, 502: the item of that name, or None
ItemNamed(item_name) ==
    LET hits == {j \in 1..Len(items) : items[j].name = item_name}
    IN  IF hits = {} THEN NoItem ELSE items[CHOOSE j \in hits : \A m \in hits : j <= m]

\* lines 489-503: the team run_simulation builds from the selections of the
\* first slots and their items; a selection whose name is not found adds
\* nothing
Picked(tvars, item_vars) ==
    LET selected == Selected(SubSeq(tvars, 1, Required(battle_type)))
        F[k \in 0..Len(selected)] ==
            IF k = 0 THEN <<>>
            ELSE IF Found(NameOf(selected[k])) = 0 THEN F[k - 1]
            ELSE Append(F[k - 1], Entry(warriors[Found(NameOf(selected[k]))], ItemNamed(item_vars[k])))
    IN  F[Len(selected)]

\* The state after BattleArenaApp.__init__: init_simulation calls
\* load_simulation_warriors and then update_battle_mode (lines 376-379).
AppInit ==
    /\ battles_run = 0
    /\ team1 = <<>>
    /\ team2 = <<>>
    /\ team1_states = <<>>
    /\ team2_states = <<>>
    /\ time = FZero
    /\ current_events = <<>>
    /\ events = <<>>
    /\ team1_alive = FALSE
    /\ team2_alive = FALSE
    /\ result_text = ""
    /\ pc = "idle"
    /\ idx = 0
    /\ warriors = Stored
    /\ battle_type = "1v1"
    /\ team1_vars = <<<<>>, <<>>, <<>>>>
    /\ team2_vars = <<<<>>, <<>>, <<>>>>
    /\ team1_item_vars = <<"", "", "">>
    /\ team2_item_vars = <<"", "", "">>
    /\ team1_values = Offered(Stored, <<<<>>, <<>>, <<>>>>, <<<<>>, <<>>, <<>>>>, <<<<>>, <<>>, <<>>>>)
    /\ team2_values = Offered(Stored, <<<<>>, <<>>, <<>>>>, <<<<>>, <<>>, <<>>>>, <<<<>>, <<>>, <<>>>>)
    /\ team1_selections = <<>>
    /\ team2_selections = <<>>
    /\ error_shown = FALSE
    /\ clicks = 0
    /\ NoGame
    /\ NoWindow

\* One more operation on the window, of at most MaxClicks.
Click == clicks < MaxClicks /\ clicks' = clicks + 1

battle == <<team1_states, team2_states, time, current_events, events, team1_alive, team2_alive, result_text, idx>>

\* lines 778-806, WarriorEditor.save of a new warrior: the list grows and is
\* written to the file; the simulation tab is not told
add_warrior ==
    /\ pc = "idle"
    /\ Click
    /\ Len(warriors) < MaxWarriors
    /\ \E w \in Pool : warriors' = Append(warriors, w)
    /\ error_shown' = FALSE
    /\ UNCHANGED <<mind, game, battles_run, battle, team1, team2, pc, battle_type, team1_vars, team2_vars, team1_item_vars, team2_item_vars, team1_values, team2_values, team1_selections, team2_selections>>

\* lines 197-203 and 778-806, WarriorEditor.save of an edited warrior: the
\* first record equal to the edited one is replaced (list.index, line 801)
edit_warrior ==
    /\ pc = "idle"
    /\ Click
    /\ \E j \in 1..Len(warriors), w \in Pool :
          LET index == CHOOSE k \in 1..Len(warriors) : warriors[k] = warriors[j] /\ \A m \in 1..(k - 1) : warriors[m] # warriors[j]
          IN  warriors' = [warriors EXCEPT ![index] = w]
    /\ error_shown' = FALSE
    /\ UNCHANGED <<mind, game, battles_run, battle, team1, team2, pc, battle_type, team1_vars, team2_vars, team1_item_vars, team2_item_vars, team1_values, team2_values, team1_selections, team2_selections>>

\* lines 205-212: the selected warrior is popped off the list
delete_warrior ==
    /\ pc = "idle"
    /\ Click
    /\ \E j \in 1..Len(warriors) :
          warriors' = SubSeq(warriors, 1, j - 1) \o SubSeq(warriors, j + 1, Len(warriors))
    /\ error_shown' = FALSE
    /\ UNCHANGED <<mind, game, battles_run, battle, team1, team2, pc, battle_type, team1_vars, team2_vars, team1_item_vars, team2_item_vars, team1_values, team2_values, team1_selections, team2_selections>>

\* lines 408-423: a value of a visible warrior dropdown is picked; the trace
\* on its variable (lines 307, 334) runs on_warrior_select
on_warrior_select ==
    /\ pc = "idle"
    /\ Click
    /\ \E i \in 1..Required(battle_type) :
          \/ \E k \in 1..Len(team1_values[i]) :
                LET selection == team1_values[i][k]
                    v1 == [team1_vars EXCEPT ![i] = selection]
                IN  /\ team1_vars' = v1
                    /\ team1_selections' = Noted(team1_selections, i, selection)
                    /\ team1_values' = Offered(warriors, v1, team2_vars, v1)
                    /\ team2_values' = Offered(warriors, v1, team2_vars, team2_vars)
                    /\ UNCHANGED <<team2_vars, team2_selections>>
          \/ \E k \in 1..Len(team2_values[i]) :
                LET selection == team2_values[i][k]
                    v2 == [team2_vars EXCEPT ![i] = selection]
                IN  /\ team2_vars' = v2
                    /\ team2_selections' = Noted(team2_selections, i, selection)
                    /\ team1_values' = Offered(warriors, team1_vars, v2, team1_vars)
                    /\ team2_values' = Offered(warriors, team1_vars, v2, v2)
                    /\ UNCHANGED <<team1_vars, team1_selections>>
    /\ error_shown' = FALSE
    /\ UNCHANGED <<mind, game, battles_run, battle, team1, team2, pc, warriors, battle_type, team1_item_vars, team2_item_vars>>

\* An entry of a visible item dropdown is picked: its values are [''] and
\* the item names (lines 469-471), its variable one of lines 286-287
select_item ==
    /\ pc = "idle"
    /\ Click
    /\ \E i \in 1..Required(battle_type), item_name \in {""} \cup {items[j].name : j \in 1..Len(items)} :
          \/ team1_item_vars' = [team1_item_vars EXCEPT ![i] = item_name] /\ UNCHANGED team2_item_vars
          \/ team2_item_vars' = [team2_item_vars EXCEPT ![i] = item_name] /\ UNCHANGED team1_item_vars
    /\ error_shown' = FALSE
    /\ UNCHANGED <<mind, game, battles_run, battle, team1, team2, pc, warriors, battle_type, team1_vars, team2_vars, team1_values, team2_values, team1_selections, team2_selections>>

\* lines 381-406: a radio button is clicked (lines 353-356)
update_battle_mode ==
    /\ pc = "idle"
    /\ Click
    /\ \E mode \in {"1v1", "3v3"} :
          LET Cleared(tvars, blank) == [i \in Slots |-> IF i - 1 < Required(mode) THEN blank ELSE tvars[i]]
              v1 == Cleared(team1_vars, <<>>)
              v2 == Cleared(team2_vars, <<>>)
          IN  /\ battle_type' = mode
              /\ team1_vars' = v1
              /\ team2_vars' = v2
              /\ team1_item_vars' = Cleared(team1_item_vars, "")
              /\ team2_item_vars' = Cleared(team2_item_vars, "")
              /\ team1_values' = Offered(warriors, v1, v2, v1)
              /\ team2_values' = Offered(warriors, v1, v2, v2)
    /\ team1_selections' = <<>>
    /\ team2_selections' = <<>>
    /\ error_shown' = FALSE
    /\ UNCHANGED <<mind, game, battles_run, battle, team1, team2, pc, warriors>>

\* lines 447-471: "Refresh Lists" (line 363); the file holds the list as
\* the last add, edit or delete wrote it (lines 211, 803), and setting the
\* six variables runs on_warrior_select for each of them
load_simulation_warriors ==
    /\ pc = "idle"
    /\ Click
    /\ team1_vars' = <<<<>>, <<>>, <<>>>>
    /\ team2_vars' = <<<<>>, <<>>, <<>>>>
    /\ team1_item_vars' = <<"", "", "">>
    /\ team2_item_vars' = <<"", "", "">>
    /\ team1_selections' = Noted(Noted(Noted(<<>>, 1, <<>>), 2, <<>>), 3, <<>>)
    /\ team2_selections' = Noted(Noted(Noted(<<>>, 1, <<>>), 2, <<>>), 3, <<>>)
    /\ team1_values' = Offered(warriors, team1_vars', team2_vars', team1_vars')
    /\ team2_values' = Offered(warriors, team1_vars', team2_vars', team2_vars')
    /\ error_shown' = FALSE
    /\ UNCHANGED <<mind, game, battles_run, battle, team1, team2, pc, warriors, battle_type>>

\* lines 473-487: "Start Battle" with too few selections: the error box
run_simulation_refused ==
    /\ pc = "idle"
    /\ Click
    /\ \/ Len(Selected(SubSeq(team1_vars, 1, Required(battle_type)))) # Required(battle_type)
       \/ Len(Selected(SubSeq(team2_vars, 1, Required(battle_type)))) # Required(battle_type)
    /\ error_shown' = TRUE
    /\ UNCHANGED <<mind, game, battles_run, battle, team1, team2, pc, warriors, battle_type, team1_vars, team2_vars, team1_item_vars, team2_item_vars, team1_values, team2_values, team1_selections, team2_selections>>

\* lines 473-510: "Start Battle" with enough selections: the teams are
\* built and simulate_battle is called
run_simulation ==
    /\ pc = "idle"
    /\ Click
    /\ Len(Selected(SubSeq(team1_vars, 1, Required(battle_type)))) = Required(battle_type)
    /\ Len(Selected(SubSeq(team2_vars, 1, Required(battle_type)))) = Required(battle_type)
    /\ team1' = Picked(team1_vars, team1_item_vars)
    /\ team2' = Picked(team2_vars, team2_item_vars)
    /\ pc' = "call"
    /\ error_shown' = FALSE
    /\ battles_run' = battles_run + 1
    /\ UNCHANGED <<mind, game, battle, warriors, battle_type, team1_vars, team2_vars, team1_item_vars, team2_item_vars, team1_values, team2_values, team1_selections, team2_selections>>

\* lines 510-513: simulate_battle returns (its steps are those of Spec) and
\* the tab takes clicks again
battle_returns ==
    /\ pc = "call"
    /\ pc' = "idle"
    /\ UNCHANGED <<mind, game, battles_run, battle, team1, team2, app>>

AppNext == add_warrior \/ edit_warrior \/ delete_warrior \/ on_warrior_select \/ select_item \/ update_battle_mode \/ load_simulation_warriors \/ run_simulation_refused \/ run_simulation \/ battle_returns

AppSpec == AppInit /\ [][AppNext]_vars

(***************************************************************************)
(* check_guess of the Mastermind game (src/mp01_1.py, lines 27-58).        *)
(*                                                                         *)
(* A Python list is an object: lists maps each list object to its content, *)
(* and the names guess_copy and code_copy hold the object they are bound   *)
(* to.  The parameters player_guess and secret_code are bound to the       *)
(* caller's two lists throughout.                                          *)
(***************************************************************************)
\* Largest code_length (line 63 and on: 4, 5 or 6 in the game).
MaxLength == 4

\* num_colors (line 62 and on: 6, 7 or 8 in the game).
NumColors == 3

Digits == <<"1", "2", "3", "4", "5", "6", "7", "8">>

\* The colours of a code or a guess: str(1) .. str(num_colors) (lines 23, 83)
Colours == {Digits[k] : k \in 1..NumColors}

\* The guesses and codes of a given length (lines 21-24, 88)
Codes(length) == [1..length -> Colours]

\* lines 54, 56: x in code_copy, and code_copy.index(x)
IndexOf(x, l) ==
    LET hits == {k \in 1..Len(l) : l[k] = x}
    IN  IF hits = {} THEN 0 ELSE CHOOSE k \in hits : \A m \in hits : k <= m

\* A call check_guess(player_guess, secret_code) with lists of one length.
PegInit ==
    /\ \E length \in 1..MaxLength : \E g \in Codes(length), c \in Codes(length) :
          lists = [player_guess |-> g, secret_code |-> c, guess_copy |-> <<>>, code_copy |-> <<>>]
    /\ guess_copy = ""
    /\ code_copy = ""
    /\ black_pegs = 0
    /\ white_pegs = 0
    /\ position = 0
    /\ step = "entry"
    /\ battles_run = 0
    /\ team1 = <<>>
    /\ team2 = <<>>
    /\ team1_states = <<>>
    /\ team2_states = <<>>
    /\ time = FZero
    /\ current_events = <<>>
    /\ events = <<>>
    /\ team1_alive = FALSE
    /\ team2_alive = FALSE
    /\ result_text = ""
    /\ pc = "idle"
    /\ idx = 0
    /\ TabAtRest
    /\ NoWindow

arena == <<battles_run, team1, team2, team1_states, team2_states, time, current_events, events, team1_alive, team2_alive, result_text, pc, idx, app>>

\* lines 39-43: the counters start at 0 and both lists are copied
Enter ==
    /\ step = "entry"
    /\ black_pegs' = 0
    /\ white_pegs' = 0
    /\ lists' = [lists EXCEPT !.code_copy = lists.secret_code, !.guess_copy = lists.player_guess]
    /\ code_copy' = "code_copy"
    /\ guess_copy' = "guess_copy"
    /\ position' = 0
    /\ step' = "blacks"
    /\ UNCHANGED <<mind, arena>>

\* lines 46-50, one round of the first loop at a position where the two
\* lists agree: a black peg, and both entries are crossed out
BlackFound ==
    /\ step = "blacks"
    /\ position < Len(lists[guess_copy])
    /\ lists[guess_copy][position + 1] = lists[code_copy][position + 1]
    /\ black_pegs' = black_pegs + 1
    /\ lists' = [g \in DOMAIN lists |->
                    IF g = code_copy THEN [lists[g] EXCEPT ![position + 1] = "O"]
                    ELSE IF g = guess_copy THEN [lists[g] EXCEPT ![position + 1] = "X"]
                    ELSE lists[g]]
    /\ position' = position + 1
    /\ UNCHANGED <<mind, arena, guess_copy, code_copy, white_pegs, step>>

\* lines 46-47, one round of the first loop where they differ
BlackPassed ==
    /\ step = "blacks"
    /\ position < Len(lists[guess_copy])
    /\ lists[guess_copy][position + 1] # lists[code_copy][position + 1]
    /\ position' = position + 1
    /\ UNCHANGED <<mind, arena, lists, guess_copy, code_copy, black_pegs, white_pegs, step>>

\* lines 46, 53: the first loop is over, the second starts
BlacksDone ==
    /\ step = "blacks"
    /\ position = Len(lists[guess_copy])
    /\ position' = 0
    /\ step' = "whites"
    /\ UNCHANGED <<mind, arena, lists, guess_copy, code_copy, black_pegs, white_pegs>>

\* lines 53-56 with the first occurrence left in place: the same entry of
\* the code can be counted again
WhiteFound_NoMark ==
    /\ step = "whites"
    /\ position < Len(lists[guess_copy])
    /\ lists[guess_copy][position + 1] # "X"
    /\ IndexOf(lists[guess_copy][position + 1], lists[code_copy]) # 0
    /\ white_pegs' = white_pegs + 1
    /\ position' = position + 1
    /\ UNCHANGED <<mind, arena, lists, guess_copy, code_copy, black_pegs, step>>

\* lines 53-56, one round of the second loop at an entry of the guess that
\* is not crossed out and occurs in what is left of the code: a white peg,
\* and the first such entry of the code is crossed out
WhiteFound ==
    /\ step = "whites"
    /\ position < Len(lists[guess_copy])
    /\ lists[guess_copy][position + 1] # "X"
    /\ IndexOf(lists[guess_copy][position + 1], lists[code_copy]) # 0
    /\ white_pegs' = white_pegs + 1
    /\ lists' = [g \in DOMAIN lists |->
                    IF g = code_copy
                    THEN [lists[g] EXCEPT ![IndexOf(lists[guess_copy][position + 1], lists[code_copy])] = "O"]
                    ELSE lists[g]]
    /\ position' = position + 1
    /\ UNCHANGED <<mind, arena, guess_copy, code_copy, black_pegs, step>>

\* lines 53-54, one round of the second loop at any other entry
WhitePassed ==
    /\ step = "whites"
    /\ position < Len(lists[guess_copy])
    /\ \/ lists[guess_copy][position + 1] = "X"
       \/ IndexOf(lists[guess_copy][position + 1], lists[code_copy]) = 0
    /\ position' = position + 1
    /\ UNCHANGED <<mind, arena, lists, guess_copy, code_copy, black_pegs, white_pegs, step>>

\* line 58: return black_pegs, white_pegs
Return ==
    /\ step = "whites"
    /\ position = Len(lists[guess_copy])
    /\ step' = "returned"
    /\ UNCHANGED <<mind, arena, lists, guess_copy, code_copy, black_pegs, white_pegs, position>>

PegNext == Enter \/ BlackFound \/ BlackPassed \/ BlacksDone \/ WhiteFound \/ WhitePassed \/ Return

PegSpec == PegInit /\ [][PegNext]_vars

(***************************************************************************)
(* The Mastermind windows (src/mp01_1.py, lines 60-141).                   *)
(*                                                                         *)
(* A text is the sequence of its characters.  A message box is modal:      *)
(* while one is up the window takes no input, and the statement after the  *)
(* box runs when the box is closed.                                        *)
(***************************************************************************)
\* line 71
max_attempts == 12

\* lines 61-69: num_colors and code_length of each difficulty
num_colors(d) == IF d = "Easy" THEN 6 ELSE IF d = "Medium" THEN 7 ELSE 8

code_length(d) == IF d = "Easy" THEN 4 ELSE IF d = "Medium" THEN 5 ELSE 6

\* The characters a player types, in the order of their code points:
\* "sup2" stands for the superscript two, a character str.isdigit accepts.
Characters == <<"0", "1", "2", "3", "4", "5", "6", "7", "8", "9", "a", "sup2">>

\* The place of a character in that order: line 83 compares characters.
Rank(ch) == CHOOSE k \in 1..Len(Characters) : Characters[k] = ch

\* line 83: str.isdigit, for one character
IsDigit(ch) == ch \in {"0", "1", "2", "3", "4", "5", "6", "7", "8", "9", "sup2"}

\* str(n) for a number of one digit (lines 23, 83, 91, 94)
Str(n) == Characters[n + 1]

\* line 83, negated: the guess has code_length characters, all of them
\* digits, each from '1' to str(num_colors)
Valid(guess, d) ==
    /\ Len(guess) = code_length(d)
    /\ \A k \in 1..Len(guess) : IsDigit(guess[k])
    /\ \A k \in 1..Len(guess) : Rank("1") <= Rank(guess[k]) /\ Rank(guess[k]) <= Rank(Str(num_colors(d)))

\* lines 21-24: two of the codes make_secret_code can return: the colours in
\* rising order and the highest colour throughout.
Secrets(d) == {[k \in 1..code_length(d) |-> Str(k)], [k \in 1..code_length(d) |-> Str(num_colors(d))]}

\* The texts a player types against code c: the code, two other guesses the
\* game accepts, and texts it refuses for their length or for a character.
Typed(d, c) ==
    LET Put(ch) == [c EXCEPT ![1] = ch]
    IN  {c, Put(IF c[1] = "1" THEN "2" ELSE "1"), [k \in 1..Len(c) |-> c[Len(c) + 1 - k]]}
        \cup {<<>>, SubSeq(c, 1, Len(c) - 1), Append(c, "1")}
        \cup {Put("0"), Put(Str(num_colors(d) + 1)), Put("a"), Put("sup2")}

\* line 94: f"{guess} => {black_pegs}B - {white_pegs}W"
Line(guess, black, white) == guess \o <<" => ", Str(black), "B - ", Str(white), "W">>

\* line 95: "\n".join(previous_attempts)
Joined(l) ==
    LET F[k \in 0..Len(l)] ==
            IF k = 0 THEN <<>>
            ELSE IF k = 1 THEN l[1]
            ELSE F[k - 1] \o <<"\n">> \o l[k]
    IN  F[Len(l)]

\* lines 99-103 with the two tests in the other order
Verdict_LimitFirst(black, tries, length) ==
    IF tries >= max_attempts THEN "loss"
    ELSE IF black = length THEN "win"
    ELSE "none"

\* lines 99-103: the box a guess ends with, if any
Verdict(black, tries, length) ==
    IF black = length THEN "win"
    ELSE IF tries >= max_attempts THEN "loss"
    ELSE "none"

\* lines 144-148, 132-141: mastermind() opens the difficulty window.
GameInit ==
    /\ window = "select"
    /\ difficulty = ""
    /\ code = <<>>
    /\ attempts = 0
    /\ previous_attempts = <<>>
    /\ entry = <<>>
    /\ feedback = <<>>
    /\ attempts_label = <<0, 0>>
    /\ previous_guesses = <<>>
    /\ box = "none"
    /\ NoGame
    /\ battles_run = 0
    /\ team1 = <<>>
    /\ team2 = <<>>
    /\ team1_states = <<>>
    /\ team2_states = <<>>
    /\ time = FZero
    /\ current_events = <<>>
    /\ events = <<>>
    /\ team1_alive = FALSE
    /\ team2_alive = FALSE
    /\ result_text = ""
    /\ pc = "idle"
    /\ idx = 0
    /\ TabAtRest

\* check_guess_action can be called: the game window is up, no box is up
\* and no call is under way
Awaiting == window = "game" /\ box = "none" /\ step = "none"

\* lines 137-139, 60-77, 108-130: a difficulty button: the difficulty window
\* goes, a code is made and the game window comes up
start_game ==
    /\ window = "select"
    /\ \E d \in {"Easy", "Medium", "Hard"} :
          /\ difficulty' = d
          /\ code' \in Secrets(d)
    /\ attempts' = 0
    /\ previous_attempts' = <<>>
    /\ entry' = <<>>
    /\ feedback' = <<>>
    /\ attempts_label' = <<0, max_attempts>>
    /\ previous_guesses' = <<>>
    /\ window' = "game"
    /\ UNCHANGED <<arena, game, box>>

\* line 114: the player types a text into the entry
type_text ==
    /\ Awaiting
    /\ entry' \in Typed(difficulty, code)
    /\ UNCHANGED <<arena, game, window, difficulty, code, attempts, previous_attempts, feedback, attempts_label, previous_guesses, box>>

\* lines 79-84: Return or "Submit" on a text that is not a guess: the error
\* box
submit_invalid ==
    /\ Awaiting
    /\ ~Valid(entry, difficulty)
    /\ box' = "invalid"
    /\ UNCHANGED <<arena, game, window, difficulty, code, attempts, previous_attempts, entry, feedback, attempts_label, previous_guesses>>

\* lines 84-85: the error box is closed and the handler returns
dismiss_error ==
    /\ box = "invalid"
    /\ box' = "none"
    /\ UNCHANGED <<arena, game, window, difficulty, code, attempts, previous_attempts, entry, feedback, attempts_label, previous_guesses>>

\* lines 79-89: Return or "Submit" on a guess: attempts goes up and
\* check_guess is called on list(guess) and code.copy()
submit_valid ==
    /\ Awaiting
    /\ Valid(entry, difficulty)
    /\ attempts' = attempts + 1
    /\ lists' = [player_guess |-> entry, secret_code |-> code, guess_copy |-> <<>>, code_copy |-> <<>>]
    /\ guess_copy' = ""
    /\ code_copy' = ""
    /\ black_pegs' = 0
    /\ white_pegs' = 0
    /\ position' = 0
    /\ step' = "entry"
    /\ UNCHANGED <<arena, window, difficulty, code, previous_attempts, entry, feedback, attempts_label, previous_guesses, box>>

\* lines 89-97: check_guess has returned; the labels and the history are
\* brought up to date and the entry is emptied
Answered ==
    /\ step = "returned"
    /\ window = "game"
    /\ feedback' = <<black_pegs, white_pegs>>
    /\ attempts_label' = <<attempts, max_attempts>>
    /\ previous_attempts' = Append(previous_attempts, Line(entry, black_pegs, white_pegs))
    /\ previous_guesses' = Joined(previous_attempts')
    /\ entry' = <<>>
    /\ step' = "none"
    /\ UNCHANGED <<arena, lists, guess_copy, code_copy, black_pegs, white_pegs, position, window, difficulty, code, attempts>>

\* lines 89-100: the guess earned code_length black pegs
guess_won ==
    /\ Answered
    /\ Verdict(black_pegs, attempts, code_length(difficulty)) = "win"
    /\ box' = "win"

\* lines 89-104: it did not, and no attempt is left
guess_lost ==
    /\ Answered
    /\ Verdict(black_pegs, attempts, code_length(difficulty)) = "loss"
    /\ box' = "loss"

\* lines 89-103: it did not, and the game goes on
guess_again ==
    /\ Answered
    /\ Verdict(black_pegs, attempts, code_length(difficulty)) = "none"
    /\ box' = "none"

\* lines 101-102, 105-106: the box is closed, the game window is destroyed
\* and the difficulty window comes up again
close_game ==
    /\ box \in {"win", "loss"}
    /\ box' = "none"
    /\ window' = "select"
    /\ UNCHANGED <<arena, game, difficulty, code, attempts, previous_attempts, entry, feedback, attempts_label, previous_guesses>>

GameNext == start_game \/ type_text \/ submit_invalid \/ dismiss_error \/ submit_valid \/ PegNext \/ guess_won \/ guess_lost \/ guess_again \/ close_game

GameSpec == GameInit /\ [][GameNext]_vars

(***************************************************************************)
(* Properties.                                                             *)
(***************************************************************************)
Team1Wins == "Team 1 is victorious!"

Team2Wins == "Team 2 is victorious!"

Draw == "Battle ended in a draw (time limit reached)"

\* the combatant states exist (the call has passed line 586)
Built == pc # "call"

\* the events the current step appends to current_events
NewEvents == IF Len(current_events') > Len(current_events) THEN SubSeq(current_events', Len(current_events) + 1, Len(current_events')) ELSE <<>>

NewOfKind(kind) == SelectSeq(NewEvents, LAMBDA ev : ev.kind = kind)

\* the whole log so far, flushed or not
Log == IF pc = "attack" \/ pc = "regen" THEN events \o current_events ELSE events

\* C1: in every reachable state every combatant's hp is at most its max_hp,
\* and its max_hp is still the value init_warrior_state derived for it.
C1_HpWithinMax ==
    Built =>
        /\ \A j \in 1..Len(team1_states) : team1_states[j].hp <= team1_states[j].max_hp /\ team1_states[j].max_hp = init_warrior_state(team1[j]).max_hp
        /\ \A j \in 1..Len(team2_states) : team2_states[j].hp <= team2_states[j].max_hp /\ team2_states[j].max_hp = init_warrior_state(team2[j]).max_hp

\* a combatant hurt by an attack has just been healed by less than its
\* hp_regen, back to exactly max_hp
C1_Witness ==
    /\ pc = "attack"
    /\ \E k \in 1..Len(current_events), j \in 1..Len(Combatants) :
         /\ current_events[k].kind = "regen"
         /\ current_events[k].who = Combatants[j].name
         /\ current_events[k].amount > 0
         /\ current_events[k].amount < Combatants[j].hp_regen
         /\ Combatants[j].hp = Combatants[j].max_hp
    /\ \E k \in 1..Len(events) : events[k].kind = "damage"

\* C2: the loop processes at most 3000 ticks, the clock never passes 300,
\* and a finished call has reported one of the three outcomes.
C2_AtMost3000Ticks ==
    /\ pc \in {"regen", "attack"} => Tick <= 3000
    /\ ~FLt(FInt(max_time), time)
    /\ pc = "done" => result_text \in {Team1Wins, Team2Wins, Draw}

\* C3: the reported outcome matches the final state: a victory is reported
\* only for a team with a survivor over a team without one, and a draw
\* exactly when the time limit is reached with survivors on both sides.
C3_OutcomeMatchesState ==
    pc = "done" =>
        /\ result_text = Team1Wins => ~AnyAlive(team2_states) /\ AnyAlive(team1_states)
        /\ result_text = Team2Wins => ~AnyAlive(team1_states) /\ AnyAlive(team2_states)
        /\ result_text = Draw <=> (FGe(time, FInt(max_time)) /\ AnyAlive(team1_states) /\ AnyAlive(team2_states))

\* C4 as claimed: when neither team has a combatant with hp > 0 at the
\* termination check, Team 2 is declared the winner.
C4_DoubleWipeTeam2 == (pc = "done" /\ ~team1_alive /\ ~team2_alive) => result_text = Team2Wins

\* C4 as amended: when neither team has a combatant with hp > 0 at the
\* termination check, Team 1 is declared the winner.
C4_DoubleWipeTeam1 == (pc = "done" /\ ~team1_alive /\ ~team2_alive) => result_text = Team1Wins

\* a finished battle between two fielded combatants, none of them alive
C4_Witness ==
    /\ pc = "done"
    /\ Len(team1_states) > 0 /\ Len(team2_states) > 0
    /\ ~AnyAlive(team1_states) /\ ~AnyAlive(team2_states)
    /\ ~team1_alive /\ ~team2_alive

\* C5: given an empty team or teams of different sizes, simulate_battle
\* rejects the call: no tick is simulated, nothing is logged, no winner is
\* declared.
C5_MismatchRejected ==
    (Len(team1) = 0 \/ Len(team2) = 0 \/ Len(team1) # Len(team2)) =>
        /\ pc \notin {"regen", "attack"}
        /\ events = <<>>
        /\ result_text = ""

\* C6: every attack that is not a miss deals a final damage of at least 1
\* (8 eighths) and lowers the hp of its target by that amount.
C6_HitDealsAtLeastOne ==
    [][pc = "attack" /\ idx' = idx + 1 /\ NewOfKind("miss") = <<>> /\ NewEvents # <<>> =>
         /\ Len(NewOfKind("damage")) = 1
         /\ NewOfKind("damage")[1].amount >= 8
         /\ \E j \in 1..Len(Combatants) :
              /\ Combatants[j].name = NewOfKind("damage")[1].target
              /\ Combatants'[j].hp = Combatants[j].hp - NewOfKind("damage")[1].amount
              /\ Combatants'[j].hp <= Combatants[j].hp - 8]_vars

\* a hit whose reduced damage is below 1 has been raised to 1
C6_Witness ==
    \E k \in 1..Len(current_events) :
        /\ current_events[k].kind = "damage"
        /\ current_events[k].amount = 8
        /\ current_events[k].base = 16

\* side X of a 1 vs 1 battle out-damages the other side: min_dmg and max_dmg
\* of X both exceed the max_hp of the opponent, whose defense is 0
Other(side) == 3 - side

Overpowers(side) ==
    /\ pc \notin {"call", "raised"}
    /\ Len(team1_states) = 1 /\ Len(team2_states) = 1
    /\ TeamOf(side)[1].min_dmg > TeamOf(Other(side))[1].max_hp
    /\ TeamOf(side)[1].max_dmg > TeamOf(Other(side))[1].max_hp
    /\ TeamOf(Other(side))[1].defense = 0

WinsText(side) == IF side = 1 THEN Team1Wins ELSE Team2Wins

\* the step is the victory check of a tick (lines 687-694)
CheckStep == pc = "attack" /\ pc' # "attack"

\* C7 as claimed: in a 1 vs 1 battle where one side out-damages the other,
\* the first tick whose time is at or after that side's next_attack_time
\* (its cooldown, from the start of the battle) is the last one: its
\* victory check ends the battle, and the out-damaging side is declared the
\* winner.
C7_EndsAtFirstReadyTick ==
    [][\A side \in {1, 2} :
         /\ (Overpowers(side) /\ CheckStep /\ FGe(time, TeamOf(side)[1].cooldown)) => (pc' = "report" /\ ~AnyAlive(TeamOf(Other(side))))
         /\ (Overpowers(side) /\ pc = "report" /\ FGe(time, TeamOf(side)[1].cooldown)) => result_text' = WinsText(side)]_vars

\* C7 as amended: in such a battle the out-damaging side attacks in the
\* first tick at or after its next_attack_time in which it is alive and not
\* stunned; unless that attack misses (Smart attacking Dexterous) it leaves
\* the opponent with hp <= 0, the victory check of the same tick ends the
\* battle without advancing the clock, and the out-damaging side is
\* declared the winner.
C7_FirstConnectingHitWins ==
    [][\A side \in {1, 2} : Overpowers(side) =>
         /\ (pc = "attack" /\ idx = (IF side = 1 THEN 1 ELSE 2) /\ Acts(TeamOf(side)[1]) /\ AnyAlive(TeamOf(Other(side)))) => NewEvents # <<>>
         /\ (pc = "attack" /\ idx = (IF side = 1 THEN 1 ELSE 2) /\ NewOfKind("damage") # <<>>) => (TeamOf(side)'[1].hp > 0 /\ ~AnyAlive(TeamOf(Other(side))'))
         /\ (CheckStep /\ AnyAlive(TeamOf(side)) /\ ~AnyAlive(TeamOf(Other(side)))) => (pc' = "report" /\ time' = time)
         /\ (pc = "report" /\ AnyAlive(TeamOf(side)) /\ ~AnyAlive(TeamOf(Other(side)))) => result_text' = WinsText(side)]_vars

\* the out-damaging side has missed, then connected, and has won
C7_Witness ==
    \E side \in {1, 2} :
        /\ Overpowers(side)
        /\ pc = "done"
        /\ result_text = WinsText(side)
        /\ \E k \in 1..Len(events) : events[k].kind = "miss" /\ events[k].who = TeamOf(side)[1].name
        /\ \E k \in 1..Len(events) : events[k].kind = "damage" /\ events[k].who = TeamOf(side)[1].name

\* the stun events of the log that hit a given combatant, oldest first
StunsOn(name) == SelectSeq(Log, LAMBDA ev : ev.kind = "stun" /\ ev.target = name)

\* 1.0 * 0.5^k as a double
HalfPower(k) == Flt(FOne.n \div Pow2(k), 0)

\* C8: the k-th stun applied to a combatant lasts 1.0 * 0.5^(k-1) seconds
\* and the combatant's stun_diminish is 1.0 halved once per stun received.
C8_StunsDiminish ==
    Built => \A j \in 1..Len(Combatants) :
        /\ Combatants[j].stun_diminish = HalfPower(Len(StunsOn(Combatants[j].name)))
        /\ \A k \in 1..Len(StunsOn(Combatants[j].name)) : StunsOn(Combatants[j].name)[k].amount = HalfPower(k - 1)

\* one combatant has been stunned three times
C8_Witness == Built /\ \E j \in 1..Len(Combatants) : Combatants[j].type = "Dexterous" /\ Len(StunsOn(Combatants[j].name)) >= 3 /\ Combatants[j].stun_diminish = HalfPower(3)

\* the stun fields of a combatant
StunFields(c) == <<c.stun_end, c.stun_immune, c.stun_diminish>>

C10_StunLastsOneSecond ==
    [][Built /\ NewOfKind("stun") # <<>> => \A j \in 1..Len(Combatants) :
         Combatants[j].name = NewOfKind("stun")[1].target => Combatants'[j].stun_end = FAdd(time, FOne)]_vars

\* the definition (warrior and item) a combatant was built from
Definition(j) == (team1 \o team2)[j]

\* C11: the derived stats of every combatant are the reference formulas of
\* its warrior and its item (an absent item counting as all-zero bonuses):
\* max_hp = 150 + 20 tough + add_hp, hp_regen = 0.25 + 0.05 tough +
\* add_hp_regen, defense = 2 dex + add_defense, min/max_dmg = base + 3 smart
\* + add_dmg, cooldown = attack_time / (1 + (dex + add_attack_speed) / 100),
\* with tough, dex and smart including the item's bonus.
C11_StatsMatchReference ==
    Built =>
        \A j \in 1..Len(Combatants) :
            LET w == Definition(j).warrior
                b == Bonuses(Definition(j).item)
                s == Combatants[j]
                tough == w.tough + b.add_tough
                dex == w.dex + b.add_dex
                smart == w.smart + b.add_smart
            IN  /\ s.name = w.name /\ s.type = w.type
                /\ s.max_hp = 8 * 150 + 8 * 20 * tough + 8 * b.add_hp
                /\ 20 * s.hp_regen = 5 * 8 + 8 * tough + 20 * b.add_hp_regen
                /\ s.defense = 2 * dex + b.add_defense
                /\ s.min_dmg = 8 * (w.min_dmg + 3 * smart + b.add_dmg)
                /\ s.max_dmg = 8 * (w.max_dmg + 3 * smart + b.add_dmg)
                /\ s.cooldown.e = 0
                /\ s.cooldown.n * 4 * (100 + dex + b.add_attack_speed) = w.attack_time * 10 * SubTick * 100

\* states have been built for a fighter whose item changes every stat and
\* for a fighter without an item
C11_Witness ==
    /\ Built
    /\ \E j \in 1..Len(Combatants) :
         LET b == Definition(j).item
         IN  /\ HasItem(b)
             /\ b.add_tough # 0 /\ b.add_dex # 0 /\ b.add_smart # 0 /\ b.add_hp # 0
             /\ b.add_hp_regen # 0 /\ b.add_dmg # 0 /\ b.add_defense # 0 /\ b.add_attack_speed # 0
             /\ Combatants[j].cooldown # FQuarters(Definition(j).warrior.attack_time)
    /\ \E j \in 1..Len(Combatants) : ~HasItem(Definition(j).item)

\* the current step is an attack (a hit or a miss) of the combatant at idx
Attacks == pc = "attack" /\ (NewOfKind("damage") # <<>> \/ NewOfKind("miss") # <<>>)

\* C12: every combatant is built with hp = max_hp, next_attack = cooldown,
\* stun_end = 0, stun_immune = 0 and stun_diminish = 1.0, and no combatant
\* attacks (hit or miss) at a time earlier than its own cooldown.
C12_StartsFreshAndWaits ==
    [][/\ pc = "call" =>
            \A j \in 1..Len(Combatants') :
                /\ Combatants'[j].hp = Combatants'[j].max_hp
                /\ Combatants'[j].next_attack = Combatants'[j].cooldown
                /\ Combatants'[j].stun_end = FZero
                /\ Combatants'[j].stun_immune = FZero
                /\ Combatants'[j].stun_diminish = FOne
       /\ Attacks => FGe(time, Attacker.cooldown)]_vars

\* the first attack of a battle, made in the first tick that has reached
\* the attacker's cooldown
C12_Witness ==
    /\ pc = "attack"
    /\ events = <<>>
    /\ Len(current_events) = 1
    /\ current_events[1].kind \in {"damage", "miss"}
    /\ \E j \in 1..Len(Combatants) :
         /\ Combatants[j].name = current_events[1].who
         /\ FGe(time, Combatants[j].cooldown)
         /\ FLt(time, FAdd(Combatants[j].cooldown, FTenth))

\* C13: a missed attack has no effect on its target: the step that logs a
\* miss logs nothing else (no damage, no defeat), leaves every combatant
\* other than the attacker as it was, and changes nothing of the attacker
\* but its next_attack.
C13_MissChangesOnlyNextAttack ==
    [][NewOfKind("miss") # <<>> =>
        /\ Len(NewEvents) = 1
        /\ NewEvents[1].who = Attacker.name
        /\ \A j \in 1..Len(Combatants) :
              IF j = idx
              THEN Combatants'[j] = [Combatants[j] EXCEPT !.next_attack = Combatants'[j].next_attack]
              ELSE Combatants'[j] = Combatants[j]]_vars

\* a Smart attacker has just missed a Dexterous target, which is unhurt
C13_Witness ==
    /\ pc = "attack"
    /\ current_events # <<>>
    /\ current_events[Len(current_events)].kind = "miss"
    /\ \E j \in 1..Len(Combatants) :
         /\ Combatants[j].name = current_events[Len(current_events)].target
         /\ Combatants[j].type = "Dexterous"
         /\ Combatants[j].hp = Combatants[j].max_hp

\* the combatant at position j has been defeated
Down(j) == Combatants[j].hp <= 0

\* C14: a combatant with hp <= 0 is out for good: its record (hp,
\* next_attack and all) never changes again, its turn in the attack loop
\* logs nothing, and every attack and every regeneration that is logged
\* names a combatant that has hp > 0 at that moment.
C14_DownStaysOut ==
    [][Built /\ Len(Combatants') = Len(Combatants) =>
        /\ \A j \in 1..Len(Combatants) : Down(j) => Combatants'[j] = Combatants[j]
        /\ pc = "attack" /\ idx <= Len(Combatants) /\ Down(idx) => NewEvents = <<>>
        /\ \A k \in 1..Len(NewEvents) :
              /\ NewEvents[k].kind \in {"damage", "miss", "weak", "stun"} =>
                    \E j \in 1..Len(Combatants) : Combatants[j].name = NewEvents[k].target /\ ~Down(j)
              /\ NewEvents[k].kind = "regen" =>
                    \E j \in 1..Len(Combatants) : Combatants[j].name = NewEvents[k].who /\ ~Down(j)]_vars

\* a battle goes on around a combatant that was defeated in an earlier
\* tick: its turn in the attack loop has passed and both teams fight on
C14_Witness ==
    /\ pc = "attack"
    /\ AnyAlive(team1_states) /\ AnyAlive(team2_states)
    /\ current_events # <<>>
    /\ \E j \in 1..Len(Combatants) :
         /\ Down(j)
         /\ j < idx
         /\ Combatants[j].max_hp > 0
         /\ FGe(time, Combatants[j].next_attack)
         /\ \E k \in 1..Len(events) : events[k].kind = "defeat" /\ events[k].who = Combatants[j].name

\* the combatant at position j is stunned at the current time (line 626)
IsStunned(j) == FLt(time, Combatants[j].stun_end)

\* C15: a stunned combatant cannot act: while the time is strictly less
\* than its stun_end, its turn in the attack loop logs no attack (hit or
\* miss) and no step modifies its next_attack.
C15_StunnedCannotAct ==
    [][Built /\ Len(Combatants') = Len(Combatants) =>
        /\ \A j \in 1..Len(Combatants) : IsStunned(j) => Combatants'[j].next_attack = Combatants[j].next_attack
        /\ pc = "attack" /\ idx <= Len(Combatants) /\ IsStunned(idx) => NewEvents = <<>> /\ Combatants' = Combatants]_vars

\* the attack loop is at a living, stunned combatant whose next_attack
\* time has come and who has a living opponent
C15_Witness ==
    /\ pc = "attack"
    /\ idx <= Len(Combatants)
    /\ IsStunned(idx)
    /\ ~Down(idx)
    /\ FGe(time, Attacker.next_attack)
    /\ AliveTargets(Attacker) # {}

\* C16: a battle leaves the warrior and item records it was given
\* unchanged, so every battle started on the same selections, the first or
\* a later one, builds its combatants from the same definitions and starts
\* from the same initial states.
C16_DefinitionsUntouched ==
    [][/\ team1' = team1
       /\ team2' = team2
       /\ pc = "call" =>
            /\ team1_states' = [j \in 1..Len(team1) |-> init_warrior_state(team1[j])]
            /\ team2_states' = [j \in 1..Len(team2) |-> init_warrior_state(team2[j])]]_vars

\* a second battle has been set up for a fighter whose item raises its
\* tough, dex and smart, with the bonuses counted once
C16_Witness ==
    /\ battles_run = 2
    /\ pc = "while"
    /\ time = FZero
    /\ \E j \in 1..Len(Combatants) :
         LET b == Bonuses(Definition(j).item)
         IN  /\ b.add_tough # 0 /\ b.add_dex # 0 /\ b.add_smart # 0
             /\ Combatants[j].hp = 8 * (150 + 20 * (Definition(j).warrior.tough + b.add_tough) + b.add_hp)

\* the team a position of Combatants belongs to
SideOf(j) == IF j <= Len(team1_states) THEN 1 ELSE 2

\* C17: every attack is aimed at the team opposing the attacker and lands
\* on a combatant of that team that had hp > 0; the attacker never harms
\* itself or a teammate, also when a combatant of the other team has a
\* state record equal to its own.
C17_TargetsLivingOpponent ==
    [][Attacks =>
        /\ TargetSide(Attacker) = Other(AttackerSide)
        /\ Combatants'[idx].hp = Combatants[idx].hp
        /\ \A j \in 1..Len(Combatants) :
              Combatants'[j].hp # Combatants[j].hp => SideOf(j) # SideOf(idx) /\ ~Down(j)]_vars

\* C18: within a tick the attack loop visits Team 1 positions 1, 2, 3 and
\* then Team 2 positions 1, 2, 3, one combatant per step; the events of a
\* step are those of the combatant visited, the damage of a hit is taken
\* from the target's hp in that same step, and a combatant brought to
\* hp <= 0 earlier in the tick does nothing when its turn comes.
C18_FixedOrderDamageAtOnce ==
    [][/\ pc = "regen" => pc' = "attack" /\ idx' = 1
       /\ pc = "attack" /\ idx <= Len(Combatants) =>
            /\ pc' = "attack" /\ idx' = idx + 1 /\ time' = time
            /\ Attacker = IF idx <= Len(team1_states) THEN team1_states[idx] ELSE team2_states[idx - Len(team1_states)]
            /\ \A k \in 1..Len(NewEvents) :
                  /\ NewEvents[k].kind \in {"damage", "miss", "weak", "stun"} => NewEvents[k].who = Attacker.name
                  /\ NewEvents[k].kind = "damage" =>
                        \E j \in 1..Len(Combatants) :
                            /\ Combatants[j].name = NewEvents[k].target
                            /\ Combatants'[j].hp = Combatants[j].hp - NewEvents[k].amount
            /\ Down(idx) => NewEvents = <<>> /\ Combatants' = Combatants]_vars

\* a Team 2 combatant whose attack was due has been defeated by a Team 1
\* attacker in this very tick, and the loop has passed it
C18_Witness ==
    /\ pc = "attack"
    /\ \E j \in 1..Len(Combatants) :
         /\ SideOf(j) = 2
         /\ j < idx
         /\ Down(j)
         /\ ~IsStunned(j)
         /\ FGe(time, Combatants[j].next_attack)
         /\ AnyAlive(team1_states)
         /\ current_events[Len(current_events)] = Event("defeat", Combatants[j].name, "", 0, 0)

\* the attack loop of the current tick is over (line 682 is next)
EndOfTick == pc = "attack" /\ idx > Len(Combatants)

\* every combatant entered the battle with hp > 0 (hp starts at max_hp)
AllStartAlive == \A j \in 1..Len(Combatants) : Combatants[j].max_hp > 0

\* C19: provided every combatant starts with hp > 0, at the end of every
\* tick at least one team still has a combatant with hp > 0.
C19_NoDoubleKnockout ==
    EndOfTick /\ AllStartAlive => AnyAlive(team1_states) \/ AnyAlive(team2_states)

\* C20 as stated: after every attack (a hit, a miss, a hit that stuns) the
\* attacker's next_attack is its old next_attack plus its cooldown.
C20_AdvancedFromOldSchedule ==
    [][Attacks => Combatants'[idx].next_attack = FAdd(Attacker.next_attack, Attacker.cooldown)]_vars

\* C20 as the code has it: after every attack (a hit, a miss, a hit that
\* stuns) the attacker's next_attack is the current time plus its cooldown.
C20_AdvancedFromNow ==
    [][Attacks => Combatants'[idx].next_attack = FAdd(time, Attacker.cooldown)]_vars

\* the first attack of a battle was a hit that stunned its target; the
\* attacker's next_attack, which was its cooldown before, is the time plus
\* the cooldown and not twice the cooldown
C20_Witness ==
    /\ pc = "attack"
    /\ idx > 1
    /\ events = <<>>
    /\ Len(current_events) = 2
    /\ current_events[1].kind = "stun"
    /\ current_events[2].kind = "damage"
    /\ current_events[2].who = Combatants[idx - 1].name
    /\ Combatants[idx - 1].next_attack = FAdd(time, Combatants[idx - 1].cooldown)
    /\ Combatants[idx - 1].next_attack # FAdd(Combatants[idx - 1].cooldown, Combatants[idx - 1].cooldown)

\* the position in the flushed log of the last attack (hit or miss) of the
\* combatant called who, 0 if it has not attacked in an earlier tick
LastAttackBy(who) ==
    LET made == {k \in 1..Len(events) : events[k].kind \in {"damage", "miss"} /\ events[k].who = who}
    IN  IF made = {} THEN 0 ELSE CHOOSE k \in made : \A m \in made : m <= k

\* the clock of the tick under whose header position k of the log stands
TimeOfEntry(k) ==
    LET heads == {h \in 1..k : events[h].kind = "time"}
    IN  TickTime[events[CHOOSE h \in heads : \A m \in heads : m <= h].amount]

\* C21: two consecutive attacks (hit or miss) of one combatant are at
\* least its cooldown apart in simulated time: the clock at the later
\* attack minus the clock at the earlier one is at least the cooldown.
C21_AttacksCooldownApart ==
    [][Attacks /\ LastAttackBy(Attacker.name) # 0 =>
        LET before == TimeOfEntry(LastAttackBy(Attacker.name))
            dn == time.n - before.n - Attacker.cooldown.n
            de == time.e - before.e - Attacker.cooldown.e
        IN  dn > 0 \/ (dn = 0 /\ de >= 0)]_vars

\* the tick stands at a whole number of seconds: every tenth tick
WholeSecondTick == time.n % (10 * SubTick) = 0

\* C22: regeneration is applied exactly on the ticks at a whole number of
\* seconds, before the attacks: on such a tick every combatant with
\* 0 < hp < max_hp gains min(hp_regen, max_hp - hp) and the others are left
\* unchanged; on every other tick nobody regenerates and no regen event is
\* logged.
C22_RegenOnWholeSeconds ==
    [][pc = "regen" =>
        /\ pc' = "attack"
        /\ \A j \in 1..Len(Combatants) :
              LET c == Combatants[j]
              IN  IF WholeSecondTick /\ c.hp > 0 /\ c.hp < c.max_hp
                  THEN Combatants'[j] = [c EXCEPT !.hp = c.hp + Min(c.hp_regen, c.max_hp - c.hp)]
                  ELSE Combatants'[j] = c
        /\ ~WholeSecondTick => NewEvents = <<>>]_vars

\* a team has no combatant with hp > 0
Wiped == ~AnyAlive(team1_states) \/ ~AnyAlive(team2_states)

\* C23: the battle ends in the tick in which a team loses its last
\* combatant with hp > 0: the check at the end of that tick goes to the
\* report without advancing the clock, the report changes no combatant, no
\* event and not the clock, and no tick after the first is ever started
\* with a team wiped out.
C23_EndsInTheSameTick ==
    [][/\ EndOfTick /\ Wiped =>
            /\ pc' = "report"
            /\ time' = time
            /\ Combatants' = Combatants
            /\ events' = IF current_events = <<>> THEN events ELSE events \o <<Event("time", "", "", Fmt1(time), 0)>> \o current_events
       /\ pc = "report" => pc' = "done" /\ time' = time /\ Combatants' = Combatants /\ events' = events
       /\ pc = "done" => pc' = "call"
       /\ pc \in {"while", "regen"} /\ time # FZero => ~Wiped]_vars

\* a finished battle whose log ends with the defeat of the last combatant
\* of a team, the clock still at the tick of that defeat
C23_Witness ==
    /\ pc = "done"
    /\ Wiped
    /\ events # <<>>
    /\ events[Len(events)].kind = "defeat"
    /\ time = TimeOfEntry(Len(events))
    /\ time # FZero

\* the type of the combatant called name
TypeOf(name) == Combatants[CHOOSE j \in 1..Len(Combatants) : Combatants[j].name = name].type

\* the defense of the combatant called name
DefenseOf(name) == Combatants[CHOOSE j \in 1..Len(Combatants) : Combatants[j].name = name].defense

\* C24: type-advantage effects occur only for their own type pair and at
\* most one per attack: a miss only for Smart on Dexterous, the 1.5
\* multiplier only for Smart on Tough, a stun only for Tough on Dexterous;
\* a hit without the weak-spot event has multiplier 1.0; a combatant that
\* is not Dexterous keeps stun_end = 0, stun_immune = 0, stun_diminish = 1.
C24_EffectsOnlyForTheirPair ==
    [][Built /\ Len(Combatants') = Len(Combatants) =>
        /\ Len(NewOfKind("miss")) + Len(NewOfKind("weak")) + Len(NewOfKind("stun")) <= 1
        /\ \A k \in 1..Len(NewEvents) :
              LET ev == NewEvents[k]
              IN  /\ ev.kind = "miss" => TypeOf(ev.who) = "Smart" /\ TypeOf(ev.target) = "Dexterous"
                  /\ ev.kind = "weak" => TypeOf(ev.who) = "Smart" /\ TypeOf(ev.target) = "Tough"
                  /\ ev.kind = "stun" => TypeOf(ev.who) = "Tough" /\ TypeOf(ev.target) = "Dexterous"
                  /\ ev.kind = "damage" =>
                        IF NewOfKind("weak") # <<>>
                        THEN ev.amount = Max(8, (ev.base * 150) \div (2 * (50 + 3 * DefenseOf(ev.target))))
                        ELSE ev.amount = Max(8, (ev.base * 50) \div (50 + 3 * DefenseOf(ev.target)))
        /\ \A j \in 1..Len(Combatants) :
              Combatants[j].type # "Dexterous" => StunFields(Combatants'[j]) = <<FZero, FZero, FOne>>]_vars

\* a Tough attacker has just hit a target that is not Dexterous at the
\* plain multiplier, and the target's stun fields are untouched
C24_Witness ==
    /\ pc = "attack"
    /\ current_events # <<>>
    /\ LET ev == current_events[Len(current_events)]
       IN  /\ ev.kind = "damage"
           /\ TypeOf(ev.who) = "Tough"
           /\ TypeOf(ev.target) \in {"Tough", "Smart"}
           /\ ev.amount = ev.base
           /\ \E j \in 1..Len(Combatants) : Combatants[j].name = ev.target /\ Combatants[j].hp > 0 /\ StunFields(Combatants[j]) = <<FZero, FZero, FOne>>

\* the attack loop is at a living, un-stunned combatant whose attack is
\* due, and the team opposing it has no combatant with hp > 0
NoOneToAttack ==
    /\ pc = "attack"
    /\ idx <= Len(Combatants)
    /\ Attacker.hp > 0
    /\ ~IsStunned(idx)
    /\ FGe(time, Attacker.next_attack)
    /\ ~AnyAlive(TeamOf(Other(SideOf(idx))))

\* C25: a ready, un-stunned, living combatant that finds no living
\* combatant on the opposing team has its turn skipped: no event, no state
\* change (its next_attack is not advanced), and the loop goes on to the
\* next combatant.
C25_NoTargetSkipsTurn ==
    [][NoOneToAttack =>
        /\ NewEvents = <<>>
        /\ Combatants' = Combatants
        /\ pc' = "attack"
        /\ idx' = idx + 1]_vars

\* the case of C25, met after the opposing team lost its last combatant
\* earlier in the same tick
C25_Witness ==
    /\ NoOneToAttack
    /\ current_events # <<>>
    /\ current_events[Len(current_events)].kind = "defeat"

\* the positions of the combatants that the current step brings from
\* hp > 0 to hp <= 0
Falling == {j \in 1..Len(Combatants) : Combatants[j].hp > 0 /\ Combatants'[j].hp <= 0}

\* C26: a defeat event is emitted exactly when a combatant's hp goes from
\* above 0 to 0 or below, once, in the same step (hence the same tick) and
\* immediately after the damage event whose amount brought it there; no
\* step emits a defeat event without a combatant falling.
C26_DefeatFollowsFatalBlow ==
    [][Built /\ Len(Combatants') = Len(Combatants) =>
        /\ Len(NewOfKind("defeat")) = Cardinality(Falling)
        /\ Cardinality(Falling) <= 1
        /\ \A j \in Falling :
              /\ Len(NewEvents) >= 2
              /\ NewEvents[Len(NewEvents)] = Event("defeat", Combatants[j].name, "", 0, 0)
              /\ NewEvents[Len(NewEvents) - 1].kind = "damage"
              /\ NewEvents[Len(NewEvents) - 1].target = Combatants[j].name
              /\ Combatants'[j].hp = Combatants[j].hp - NewEvents[Len(NewEvents) - 1].amount]_vars

\* a combatant has just been brought to exactly 0 hp, and the log ends
\* with the blow and its defeat
C26_Witness ==
    /\ pc = "attack"
    /\ Len(current_events) >= 2
    /\ current_events[Len(current_events)].kind = "defeat"
    /\ current_events[Len(current_events) - 1].kind = "damage"
    /\ \E j \in 1..Len(Combatants) :
         /\ Combatants[j].name = current_events[Len(current_events)].who
         /\ Combatants[j].hp = 0
         /\ Combatants[j].max_hp = current_events[Len(current_events) - 1].amount

\* the positions of the timestamp headers in the flushed log
Headers == {h \in 1..Len(events) : events[h].kind = "time"}

\* the timestamp (in tenths of a second) of the last header, -1 if none
LastStamp == IF Headers = {} THEN 0 - 1 ELSE events[CHOOSE h \in Headers : \A m \in Headers : m <= h].amount

\* C27: the log is ordered by simulated time.  A tick starts with no
\* pending events; its regeneration events come first, then the events of
\* the attackers in the order of their turns, each appended to the end; the
\* flush adds a header only for a tick with events, stamped later than
\* every header before it, followed by the tick's events in that order; no
\* other step of a battle touches the log.
C27_LogOrderedByTime ==
    [][/\ pc = "while" /\ pc' = "regen" => current_events' = <<>>
       /\ pc = "regen" => current_events' = current_events \o NewEvents /\ NewOfKind("regen") = NewEvents
       /\ pc = "attack" /\ idx <= Len(Combatants) =>
            /\ current_events' = current_events \o NewEvents
            /\ NewOfKind("regen") = <<>> /\ NewOfKind("time") = <<>>
            /\ \A k \in 1..Len(NewEvents) : NewEvents[k].kind # "defeat" => NewEvents[k].who = Attacker.name
       /\ EndOfTick =>
            IF current_events = <<>> THEN events' = events
            ELSE /\ events' = events \o <<Event("time", "", "", Fmt1(time), 0)>> \o current_events
                 /\ Fmt1(time) > LastStamp
                 /\ \A k \in 1..Len(current_events) : current_events[k].kind # "time"
       /\ ~EndOfTick /\ pc \notin {"call", "done", "raised"} => events' = events]_vars

\* a finished battle whose log has a tick with the blows of two attackers
\* and a later header more than one tick after the one before it
C27_Witness ==
    /\ pc = "done"
    /\ \E h \in Headers :
         /\ h + 2 <= Len(events)
         /\ events[h + 1].kind = "damage" /\ events[h + 2].kind = "damage"
         /\ events[h + 1].who # events[h + 2].who
         /\ \E g \in Headers : g > h + 2 /\ events[g].amount > events[h].amount + 1


\* C28: whenever run_simulation has called simulate_battle, each team holds
\* exactly the required number of combatants: 1 in 1v1 mode, 3 in 3v3 mode.
C28_TeamsOfRequiredSize ==
    pc = "call" => Len(team1) = Required(battle_type) /\ Len(team2) = Required(battle_type)

\* C29: after a switch between 1v1 and 3v3 no warrior or item selection is
\* left in any of the six slots, and every visible dropdown offers every
\* warrior of the list.
C29_ModeSwitchClearsAllSlots ==
    [][battle_type' # battle_type =>
          /\ \A i \in Slots : team1_vars'[i] = <<>> /\ team2_vars'[i] = <<>>
          /\ \A i \in Slots : team1_item_vars'[i] = "" /\ team2_item_vars'[i] = ""
          /\ \A i \in 1..Required(battle_type'), j \in 1..Len(warriors') :
                InList(Display(warriors'[j]), team1_values'[i]) /\ InList(Display(warriors'[j]), team2_values'[i])]_vars

\* The number of positions where two lists of one length agree.
Agreeing(g, c) == Cardinality({k \in 1..Len(g) : g[k] = c[k]})

\* The number of entries of list l that are colour x.
Occurrences(x, l) == Cardinality({k \in 1..Len(l) : l[k] = x})

\* The sum over the first n colours of the smaller of the numbers of
\* occurrences in g and in c.
Shared(g, c) ==
    LET F[n \in 0..NumColors] ==
            IF n = 0 THEN 0
            ELSE F[n - 1] + Min(Occurrences(Digits[n], g), Occurrences(Digits[n], c))
    IN  F[NumColors]

\* C30: when check_guess returns, black_pegs is the number of positions
\* where guess and code agree and white_pegs is the sum over the colours of
\* min(occurrences in guess, occurrences in code) less black_pegs; so their
\* sum is at most the code length, and black_pegs is the code length exactly
\* when guess and code are equal; and no step of the call changes either of
\* the caller's lists.
C30_PegsCounted ==
    /\ [](step = "returned" =>
            /\ black_pegs = Agreeing(lists.player_guess, lists.secret_code)
            /\ white_pegs = Shared(lists.player_guess, lists.secret_code) - black_pegs
            /\ black_pegs + white_pegs <= Len(lists.secret_code)
            /\ (black_pegs = Len(lists.secret_code)) <=> (lists.player_guess = lists.secret_code))
    /\ [][lists'.player_guess = lists.player_guess /\ lists'.secret_code = lists.secret_code]_vars

\* a call has returned with black pegs, white pegs and an entry of the
\* guess that earned neither, after crossing out entries of both copies
C30_Witness ==
    /\ step = "returned"
    /\ black_pegs >= 1
    /\ white_pegs >= 1
    /\ black_pegs + white_pegs < Len(lists.secret_code)
    /\ lists.guess_copy # lists.player_guess
    /\ lists.code_copy # lists.secret_code

\* A valid guess has been answered and the handler is about to conclude.
Concluding == step = "returned" /\ step' = "none"

\* The guess of history line l: its text before " => ".
GuessOf(l) == SubSeq(l, 1, IndexOf(" => ", l) - 1)

\* C31: attempts goes up only by 1 and only on a valid guess; an invalid
\* guess leaves attempts and the history as they were; attempts never
\* exceeds max_attempts; a game that awaits a guess has had fewer than
\* max_attempts guesses, none of them the code; the valid guess that equals
\* the code ends the game with the win box, also when it is the 12th, any
\* other that brings attempts to max_attempts ends it with the loss box, any
\* other leaves the game open; and the game ends in no other way.
C31_AttemptsCounted ==
    /\ [][attempts' > attempts => attempts' = attempts + 1 /\ Awaiting /\ Valid(entry, difficulty)]_vars
    /\ [][Awaiting /\ ~Valid(entry, difficulty) /\ entry' = entry =>
             attempts' = attempts /\ previous_attempts' = previous_attempts /\ window' = window]_vars
    /\ [][box = "invalid" \/ box' = "invalid" =>
             attempts' = attempts /\ previous_attempts' = previous_attempts /\ window' = window]_vars
    /\ [](attempts <= max_attempts)
    /\ [](Awaiting =>
             /\ attempts < max_attempts
             /\ Len(previous_attempts) = attempts
             /\ \A k \in 1..Len(previous_attempts) : GuessOf(previous_attempts[k]) # code)
    /\ [][Concluding =>
             /\ lists.player_guess = code => box' = "win"
             /\ lists.player_guess # code /\ attempts = max_attempts => box' = "loss"
             /\ lists.player_guess # code /\ attempts < max_attempts => box' = "none" /\ window' = "game"
             /\ Len(previous_attempts') = attempts
             /\ GuessOf(previous_attempts'[attempts]) = lists.player_guess]_vars
    /\ [][box' \in {"win", "loss"} /\ box' # box => Concluding]_vars
    /\ [][(box \in {"win", "loss"}) => window' = "select" /\ box' = "none" /\ attempts' = attempts]_vars
    /\ [][window = "game" /\ window' # "game" => box \in {"win", "loss"}]_vars

\* the twelfth guess of a game, after eleven that were not the code, is the
\* code, and the win box is up
C31_Witness ==
    /\ box = "win"
    /\ attempts = max_attempts
    /\ Len(previous_attempts) = max_attempts
    /\ lists.player_guess = code

=============================================================================
